---- MODULE Spec2Model ----
(***************************************************************************)
(* Model of the award-flight service (services/flights.ts, lib/parse.ts):  *)
(* filter normalization, WHERE-clause construction, the chunked upsert     *)
(* pipeline and the aggregate queries, run by concurrent stateless         *)
(* requests against one relational store (table award_flights).            *)
(*                                                                         *)
(* Conventions                                                             *)
(*  - JavaScript strings are TLA+ strings; characters are read with SubSeq.*)
(*  - A loosely typed JavaScript value is a record tagged by t:            *)
(*    undefined, null, string, number or boolean.  A number carries its    *)
(*    integer part v = floor(x) and its fraction frac in thousandths.      *)
(*  - An Effect is its exit: Ok(value) or Fail(tag, message); a chain of   *)
(*    yield* is a chain of IFs that returns the first failure.             *)
(*  - datetime('now') is the integer clock now.                            *)
(***************************************************************************)
EXTENDS Integers, Sequences, FiniteSets, TLC

VARIABLES
  store,    \* rows of award_flights
  nextId,   \* AUTOINCREMENT counter of award_flights.id
  now,      \* the store's clock, datetime('now')
  req,      \* per client: the request being handled
  started   \* number of requests accepted so far

vars == <<store, nextId, now, req, started>>

---------------------------------------------------------------------------
(* Program constants *)

DEFAULT_ORIGIN == "KUL"
DEFAULT_LIMIT == 200
MAX_LIMIT == 500
MAX_UPSERT_RECORDS == 500
D1_BATCH_SIZE == 50

CABINS == {"economy", "business", "first"}
ROUTE_TYPES == {"direct", "1-stop", "2-stop"}
SORT_OPTIONS == {"date", "points"}

(* Bounds of the model *)

MaxTime == 1
MaxRequests == 3
MaxId == 4

\* requests of the client that sends long batches
MaxBulkRequests == 2

Clients == {"c1", "c2"}

\* rows of table programs (the target of award_flights.program_id)
Programs == {"enrich"}

---------------------------------------------------------------------------
(* JavaScript values *)

JSUndefined == [t |-> "undefined"]
JSNull == [t |-> "null"]
Str(s) == [t |-> "string", v |-> s]
Num(n) == [t |-> "number", v |-> n, frac |-> 0]
Dec(n, f) == [t |-> "number", v |-> n, frac |-> f]
Bool(b) == [t |-> "boolean", v |-> b]

IsNullish(x) == x.t \in {"undefined", "null"}
IsString(x) == x.t = "string"
IsNumber(x) == x.t = "number"

\* Number.isInteger
NumberIsInteger(x) == IsNumber(x) /\ x.frac = 0

\* JavaScript truthiness of a string-or-undefined value
Truthy(x) == IsString(x) /\ x.v # ""

\* a ?? b
Coalesce(a, b) == IF IsNullish(a) THEN b ELSE a

(* Effect exits *)

Ok(v) == [ok |-> TRUE, value |-> v]
Fail(tag, message) == [ok |-> FALSE, error |-> [tag |-> tag, message |-> message]]

---------------------------------------------------------------------------
(* Characters and strings *)

\* the characters the model uses, in code-unit order
Ascii == " -0123456789:ABCDEFGHIJKLMNOPQRSTUVWXYZabcdefghijklmnopqrstuvwxyz"

CharAt(s, i) == SubSeq(s, i, i)

CharCode(c) == CHOOSE i \in 1..Len(Ascii) : CharAt(Ascii, i) = c

IsDigit(c) == c \in {"0", "1", "2", "3", "4", "5", "6", "7", "8", "9"}

IsUpper(c) == CharCode(c) >= CharCode("A") /\ CharCode(c) <= CharCode("Z")

DigitVal(c) == CharCode(c) - CharCode("0")

IsWhitespace(c) == c \in {" ", "\t", "\n", "\r"}

RECURSIVE TrimStart(_)
TrimStart(s) ==
  IF Len(s) > 0 /\ IsWhitespace(CharAt(s, 1))
  THEN TrimStart(SubSeq(s, 2, Len(s)))
  ELSE s

RECURSIVE TrimEnd(_)
TrimEnd(s) ==
  IF Len(s) > 0 /\ IsWhitespace(CharAt(s, Len(s)))
  THEN TrimEnd(SubSeq(s, 1, Len(s) - 1))
  ELSE s

\* String.prototype.trim
Trim(s) == TrimEnd(TrimStart(s))

\* a < b on strings: comparison by code units
RECURSIVE StrLess(_, _)
StrLess(a, b) ==
  IF Len(b) = 0 THEN FALSE
  ELSE IF Len(a) = 0 THEN TRUE
  ELSE IF CharAt(a, 1) = CharAt(b, 1)
       THEN StrLess(SubSeq(a, 2, Len(a)), SubSeq(b, 2, Len(b)))
       ELSE CharCode(CharAt(a, 1)) < CharCode(CharAt(b, 1))

StrLeq(a, b) == a = b \/ StrLess(a, b)

\* Number(s) for a string of decimal digits
RECURSIVE DigitsToNat(_)
DigitsToNat(s) ==
  IF Len(s) = 0 THEN 0
  ELSE 10 * DigitsToNat(SubSeq(s, 1, Len(s) - 1)) + DigitVal(CharAt(s, Len(s)))

\* a non-negative number in decimal, padded with zeros to width w
RECURSIVE PadStart(_, _)
PadStart(s, w) == IF Len(s) >= w THEN s ELSE PadStart("0" \o s, w)

---------------------------------------------------------------------------
(* lib/parse.ts *)

\* IATA_RE = /^[A-Z]{3}$/
isIataCode(value) ==
  /\ Len(value) = 3
  /\ \A i \in 1..3 : IsUpper(CharAt(value, i))

\* ISO_DATE_RE = /^\d{4}-\d{2}-\d{2}$/
MatchesIsoDateRe(value) ==
  /\ Len(value) = 10
  /\ \A i \in {1, 2, 3, 4, 6, 7, 9, 10} : IsDigit(CharAt(value, i))
  /\ CharAt(value, 5) = "-"
  /\ CharAt(value, 8) = "-"

IsLeapYear(y) == (y % 4 = 0 /\ y % 100 # 0) \/ y % 400 = 0

DaysInMonth(y, m) ==
  IF m = 2 THEN (IF IsLeapYear(y) THEN 29 ELSE 28)
  ELSE IF m \in {4, 6, 9, 11} THEN 30
  ELSE 31

\* new Date(`${value}T00:00:00Z`) for a value matching ISO_DATE_RE: NaN when
\* the month is not 1..12 or the day not 1..31; a day past the end of its
\* month carries over into the next month.
DateUTC(y, m, d) ==
  IF m < 1 \/ m > 12 \/ d < 1 \/ d > 31
  THEN [nan |-> TRUE, y |-> 0, m |-> 0, d |-> 0]
  ELSE IF d <= DaysInMonth(y, m)
  THEN [nan |-> FALSE, y |-> y, m |-> m, d |-> d]
  ELSE IF m = 12
  THEN [nan |-> FALSE, y |-> y + 1, m |-> 1, d |-> d - DaysInMonth(y, m)]
  ELSE [nan |-> FALSE, y |-> y, m |-> m + 1, d |-> d - DaysInMonth(y, m)]

DateParse(value) ==
  DateUTC(DigitsToNat(SubSeq(value, 1, 4)),
          DigitsToNat(SubSeq(value, 6, 7)),
          DigitsToNat(SubSeq(value, 9, 10)))

\* parsed.toISOString().slice(0, 10)
DateToIsoDay(p) ==
  PadStart(ToString(p.y), 4) \o "-" \o PadStart(ToString(p.m), 2)
    \o "-" \o PadStart(ToString(p.d), 2)

\* !Number.isNaN(parsed.getTime()) && parsed.toISOString().slice(0, 10) === value
RoundTrips(parsed, value) ==
  IF parsed.nan THEN FALSE ELSE DateToIsoDay(parsed) = value

\* Variant of isIsoDate that stops after the pattern
isIsoDatePatternOnly(value) == MatchesIsoDateRe(value)

isIsoDate(value) ==
  IF ~MatchesIsoDateRe(value) THEN FALSE
  ELSE RoundTrips(DateParse(value), value)

\* TIME_RE = /^\d{2}:\d{2}$/
isTime(value) ==
  IF ~(/\ Len(value) = 5
       /\ \A i \in {1, 2, 4, 5} : IsDigit(CharAt(value, i))
       /\ CharAt(value, 3) = ":")
  THEN FALSE
  ELSE LET hours == DigitsToNat(SubSeq(value, 1, 2))
           minutes == DigitsToNat(SubSeq(value, 4, 5))
       IN hours >= 0 /\ hours <= 23 /\ minutes >= 0 /\ minutes <= 59

asString(value) == IF IsString(value) THEN value ELSE Str("")

toNullableString(value) ==
  IF IsString(value) /\ Trim(value.v) # "" THEN value ELSE JSNull

IsDigits(s) == \A i \in 1..Len(s) : IsDigit(CharAt(s, i))

\* the first three digits after the decimal point, as thousandths
Thousandths(digits) == DigitsToNat(SubSeq(digits \o "000", 1, 3))

\* an unsigned decimal literal with its decimal point at position dot:
\* digits on at least one side of it
UnsignedDecimal(s, dot) ==
  IF /\ IsDigits(SubSeq(s, 1, dot - 1))
     /\ IsDigits(SubSeq(s, dot + 1, Len(s)))
     /\ Len(s) > 1
  THEN Dec(DigitsToNat(SubSeq(s, 1, dot - 1)), Thousandths(SubSeq(s, dot + 1, Len(s))))
  ELSE JSNull

\* Number(s) of an unsigned string when it is finite, else null.  The
\* strings of the model are decimal literals or hold a letter other than
\* the exponent, hexadecimal, octal and binary markers.
UnsignedNumber(s) ==
  IF Len(s) > 0 /\ IsDigits(s) THEN Num(DigitsToNat(s))
  ELSE IF Cardinality({i \in 1..Len(s) : CharAt(s, i) = "."}) = 1
  THEN UnsignedDecimal(s, CHOOSE i \in 1..Len(s) : CharAt(s, i) = ".")
  ELSE JSNull

Negated(x) ==
  IF x.t = "null" THEN x
  ELSE IF x.frac = 0 THEN Dec(0 - x.v, 0)
  ELSE Dec(0 - x.v - 1, 1000 - x.frac)

\* const parsed = Number(value); Number.isFinite(parsed) ? parsed : null
FiniteNumberOf(trimmed) ==
  IF CharAt(trimmed, 1) = "-" THEN Negated(UnsignedNumber(SubSeq(trimmed, 2, Len(trimmed))))
  ELSE IF CharAt(trimmed, 1) = "+" THEN UnsignedNumber(SubSeq(trimmed, 2, Len(trimmed)))
  ELSE UnsignedNumber(trimmed)

toNullableNumber(value) ==
  IF IsNullish(value) THEN JSNull
  ELSE IF IsNumber(value) THEN value
  ELSE IF IsString(value) /\ Trim(value.v) # "" THEN FiniteNumberOf(Trim(value.v))
  ELSE JSNull

requireNumber(value) ==
  IF IsNumber(value) THEN value
  ELSE IF IsString(value) /\ Trim(value.v) # "" THEN FiniteNumberOf(Trim(value.v))
  ELSE JSNull

\* Math.round(value * 100) / 100 on a number in thousandths
round2(x) ==
  LET milli == x.v * 1000 + x.frac
      cents == (milli + 5) \div 10
  IN Dec(cents \div 100, (cents % 100) * 10)

---------------------------------------------------------------------------
(* services/flights.ts: shared helpers *)

validationFailure(message) == Fail("ValidationError", message)

databaseFailure(message) == Fail("DatabaseError", message)

\* `${pointer}.${field} ${message}`
recordFailure(pointer, field, message) ==
  Fail("ValidationError", pointer \o "." \o field \o " " \o message)

\* A chain of yield*: steps holds the exit of each step by name, order lists
\* the names in program order.  The chain fails with its first failed step.
AllOk(steps, order) == \A i \in DOMAIN order : steps[order[i]].ok

FirstFailure(steps, order) ==
  steps[order[CHOOSE i \in DOMAIN order :
                 /\ ~steps[order[i]].ok
                 /\ \A j \in 1..(i - 1) : steps[order[j]].ok]]

normalizeOptionalString(value) ==
  IF ~IsString(value) THEN JSUndefined
  ELSE LET trimmed == Trim(value.v)
       IN IF trimmed = "" THEN JSUndefined ELSE Str(trimmed)

isCabin(value) == value \in CABINS

isRouteType(value) == value \in ROUTE_TYPES

isSortOrder(value) == value \in SORT_OPTIONS

requireIataField(value, field, fallback) ==
  LET normalized == Coalesce(Coalesce(normalizeOptionalString(value), fallback), Str("")).v
  IN IF isIataCode(normalized) THEN Ok(normalized)
     ELSE validationFailure(field \o " must be an uppercase 3-letter IATA code")

\* Variant of requireNonEmptyField that tests the value as sent: if (value)
requireNonEmptyFieldUntrimmed(value, field) ==
  IF value.v # "" THEN Ok(Trim(value.v))
  ELSE validationFailure(field \o " is required")

requireNonEmptyField(value, field) ==
  LET normalized == Trim(value.v)
  IN IF normalized # "" THEN Ok(normalized)
     ELSE validationFailure(field \o " is required")

ensureIsoDateValue(value, field) ==
  IF ~Truthy(value) THEN Ok(TRUE)
  ELSE IF isIsoDate(value.v) THEN Ok(TRUE)
  ELSE validationFailure(field \o " must be YYYY-MM-DD")

\* Variant of DateCombined: date && dateFrom && dateTo
DateCombinedWithBoth(date, dateFrom, dateTo) ==
  Truthy(date) /\ Truthy(dateFrom) /\ Truthy(dateTo)

\* date && (dateFrom || dateTo)
DateCombined(date, dateFrom, dateTo) ==
  Truthy(date) /\ (Truthy(dateFrom) \/ Truthy(dateTo))

\* dateFrom && dateTo && dateFrom > dateTo
DateRangeInverted(dateFrom, dateTo) ==
  Truthy(dateFrom) /\ Truthy(dateTo) /\ StrLess(dateTo.v, dateFrom.v)

\* normalizeDateFilters on the three trimmed values
checkDateFilters(date, dateFrom, dateTo, checks) ==
  IF DateCombined(date, dateFrom, dateTo)
  THEN validationFailure("date cannot be combined with date_from/date_to")
  ELSE IF ~AllOk(checks, <<1, 2, 3>>) THEN FirstFailure(checks, <<1, 2, 3>>)
  ELSE IF DateRangeInverted(dateFrom, dateTo)
  THEN validationFailure("date_from cannot be after date_to")
  ELSE Ok([date |-> date, dateFrom |-> dateFrom, dateTo |-> dateTo])

ensureIsoDateValues(date, dateFrom, dateTo) ==
  checkDateFilters(date, dateFrom, dateTo,
                   <<ensureIsoDateValue(date, "date"),
                     ensureIsoDateValue(dateFrom, "date_from"),
                     ensureIsoDateValue(dateTo, "date_to")>>)

normalizeDateFilters(dateInput, fromInput, toInput) ==
  ensureIsoDateValues(normalizeOptionalString(dateInput),
                      normalizeOptionalString(fromInput),
                      normalizeOptionalString(toInput))

normalizeCabinField(value) ==
  LET normalized == normalizeOptionalString(value)
  IN IF ~Truthy(normalized) THEN Ok(JSUndefined)
     ELSE IF isCabin(normalized.v) THEN Ok(normalized)
     ELSE validationFailure("cabin must be one of: economy, business, first")

\* Variant of normalizeAvailableOnly whose default is false: value ?? false
normalizeAvailableOnlyOff(value) ==
  IF value.t = "null"
  THEN validationFailure("available_only must be true or false")
  ELSE Ok(Coalesce(value, Bool(FALSE)).v)

normalizeAvailableOnly(value) ==
  IF value.t = "null"
  THEN validationFailure("available_only must be true or false")
  ELSE Ok(Coalesce(value, Bool(TRUE)).v)

normalizePositiveIntFilter(field, value) ==
  IF value.t = "null" THEN validationFailure(field \o " must be a positive integer")
  ELSE IF IsNullish(value) THEN Ok(JSUndefined)
  ELSE IF NumberIsInteger(value) /\ value.v > 0 THEN Ok(value)
  ELSE validationFailure(field \o " must be a positive integer")

ensurePointsRange(pointsMin, pointsMax) ==
  IF /\ ~IsNullish(pointsMin)
     /\ ~IsNullish(pointsMax)
     /\ (pointsMin.v > pointsMax.v
         \/ (pointsMin.v = pointsMax.v /\ pointsMin.frac > pointsMax.frac))
  THEN validationFailure("points_min cannot be greater than points_max")
  ELSE Ok(TRUE)

\* Variant of normalizeLimit that brings a number into 1..500 instead of
\* rejecting it
normalizeLimitClamped(value) ==
  IF value.t = "null"
  THEN validationFailure("limit must be an integer between 1 and 500")
  ELSE LET normalized == Coalesce(value, Num(DEFAULT_LIMIT))
       IN IF normalized.v < 1 THEN Ok(1)
          ELSE IF normalized.v > MAX_LIMIT THEN Ok(MAX_LIMIT)
          ELSE Ok(normalized.v)

normalizeLimit(value) ==
  IF value.t = "null"
  THEN validationFailure("limit must be an integer between 1 and 500")
  ELSE LET normalized == Coalesce(value, Num(DEFAULT_LIMIT))
       IN IF NumberIsInteger(normalized) /\ normalized.v >= 1 /\ normalized.v <= MAX_LIMIT
          THEN Ok(normalized.v)
          ELSE validationFailure("limit must be an integer between 1 and 500")

normalizeOffset(value) ==
  IF value.t = "null"
  THEN validationFailure("offset must be a non-negative integer")
  ELSE LET normalized == Coalesce(value, Num(0))
       IN IF NumberIsInteger(normalized) /\ normalized.v >= 0
          THEN Ok(normalized.v)
          ELSE validationFailure("offset must be a non-negative integer")

normalizeSort(value) ==
  LET normalized == Coalesce(normalizeOptionalString(value), Str("date")).v
  IN IF isSortOrder(normalized) THEN Ok(normalized)
     ELSE validationFailure("sort must be one of: date, points")

SearchFilterSteps ==
  <<"destination", "origin", "dates", "cabin", "availableOnly", "pointsMin",
    "pointsMax", "range", "limit", "offset", "sort">>

\* the exits of the steps of normalizeSearchFilters, combined
searchFiltersFrom(steps, tier, programId) ==
  IF ~AllOk(steps, SearchFilterSteps) THEN FirstFailure(steps, SearchFilterSteps)
  ELSE Ok([destination |-> steps.destination.value,
           origin |-> steps.origin.value,
           date |-> steps.dates.value.date,
           dateFrom |-> steps.dates.value.dateFrom,
           dateTo |-> steps.dates.value.dateTo,
           cabin |-> steps.cabin.value,
           tier |-> tier,
           programId |-> programId,
           availableOnly |-> steps.availableOnly.value,
           pointsMin |-> steps.pointsMin.value,
           pointsMax |-> steps.pointsMax.value,
           sort |-> steps.sort.value,
           limit |-> steps.limit.value,
           offset |-> steps.offset.value])

\* ensurePointsRange runs once both point filters have been normalized
withPointsRange(steps) ==
  [range |-> IF steps.pointsMin.ok /\ steps.pointsMax.ok
             THEN ensurePointsRange(steps.pointsMin.value, steps.pointsMax.value)
             ELSE Ok(TRUE)] @@ steps

normalizeSearchFilters(input) ==
  searchFiltersFrom(
    withPointsRange(
      [destination |-> requireIataField(input.destination, "destination", JSUndefined),
       origin |-> requireIataField(input.origin, "origin", Str(DEFAULT_ORIGIN)),
       dates |-> normalizeDateFilters(input.date, input.dateFrom, input.dateTo),
       cabin |-> normalizeCabinField(input.cabin),
       availableOnly |-> normalizeAvailableOnly(input.availableOnly),
       pointsMin |-> normalizePositiveIntFilter("points_min", input.pointsMin),
       pointsMax |-> normalizePositiveIntFilter("points_max", input.pointsMax),
       limit |-> normalizeLimit(input.limit),
       offset |-> normalizeOffset(input.offset),
       sort |-> normalizeSort(input.sort)]),
    normalizeOptionalString(input.tier),
    normalizeOptionalString(input.programId))

DeleteFilterSteps == <<"programId", "destination", "origin", "dates", "cabin">>

\* the exits of the steps of normalizeDeleteFilters, combined
deleteFiltersFrom(steps) ==
  IF ~AllOk(steps, DeleteFilterSteps) THEN FirstFailure(steps, DeleteFilterSteps)
  ELSE Ok([programId |-> steps.programId.value,
           destination |-> steps.destination.value,
           origin |-> steps.origin.value,
           dateFrom |-> steps.dates.value.dateFrom,
           dateTo |-> steps.dates.value.dateTo,
           cabin |-> steps.cabin.value])

normalizeDeleteFilters(input) ==
  deleteFiltersFrom(
    [programId |-> requireNonEmptyField(input.programId, "program_id"),
     destination |-> requireIataField(input.destination, "destination", JSUndefined),
     origin |-> requireIataField(input.origin, "origin", Str(DEFAULT_ORIGIN)),
     dates |-> normalizeDateFilters(JSUndefined, input.dateFrom, input.dateTo),
     cabin |-> normalizeCabinField(input.cabin)])

---------------------------------------------------------------------------
(* services/flights.ts: upsert record normalization *)

requireRecordText(value, pointer, field) ==
  LET normalized == Trim(value.v)
  IN IF normalized # "" THEN Ok(normalized)
     ELSE recordFailure(pointer, field, "is required")

requireRecordIata(value, pointer, field, fallback) ==
  LET normalized == Coalesce(Coalesce(normalizeOptionalString(value), fallback), Str("")).v
  IN IF isIataCode(normalized) THEN Ok(normalized)
     ELSE recordFailure(pointer, field, "must be an uppercase 3-letter IATA code")

requireRecordIsoDate(value, pointer, field) ==
  LET normalized == Trim(value.v)
  IN IF isIsoDate(normalized) THEN Ok(normalized)
     ELSE recordFailure(pointer, field, "must be YYYY-MM-DD")

requireRecordTime(value, pointer, field) ==
  LET normalized == Trim(value.v)
  IN IF isTime(normalized) THEN Ok(normalized)
     ELSE recordFailure(pointer, field, "must be HH:MM")

normalizeRecordArrivalDayOffset(value, pointer) ==
  LET normalized == Coalesce(value, Num(0))
  IN IF NumberIsInteger(normalized) /\ normalized.v >= 0 /\ normalized.v <= 2
     THEN Ok(normalized.v)
     ELSE recordFailure(pointer, "arrival_day_offset", "must be one of: 0, 1, 2")

\* Variant of requireRecordPositiveInt that lets 0 through
requireRecordPositiveIntOrZero(value, pointer, field) ==
  IF ~IsNullish(value) /\ NumberIsInteger(value) /\ value.v >= 0
  THEN Ok(value.v)
  ELSE recordFailure(pointer, field, "must be a positive integer")

requireRecordPositiveInt(value, pointer, field) ==
  IF ~IsNullish(value) /\ NumberIsInteger(value) /\ value.v > 0
  THEN Ok(value.v)
  ELSE recordFailure(pointer, field, "must be a positive integer")

requireRecordNonNegativeNumber(value, pointer, field) ==
  IF ~IsNullish(value) /\ IsNumber(value) /\ value.v >= 0
  THEN Ok(value)
  ELSE recordFailure(pointer, field, "must be a non-negative number")

normalizeRecordRouteType(value, pointer) ==
  LET normalized == Trim(value.v)
  IN IF isRouteType(normalized) THEN Ok(normalized)
     ELSE recordFailure(pointer, "route_type", "must be one of: direct, 1-stop, 2-stop")

normalizeRecordCabin(value, pointer) ==
  LET normalized == Trim(value.v)
  IN IF isCabin(normalized) THEN Ok(normalized)
     ELSE recordFailure(pointer, "cabin", "must be one of: economy, business, first")

normalizeRecordAvailable(value, pointer) ==
  IF value.t = "null" THEN recordFailure(pointer, "available", "must be a boolean")
  ELSE IF IsNullish(value) THEN Ok(TRUE)
  ELSE IF value.t = "boolean" THEN Ok(value.v)
  ELSE recordFailure(pointer, "available", "must be a boolean")

normalizeRecordOptionalNonNegativeInt(value, pointer, field) ==
  IF IsNullish(value) THEN Ok(JSNull)
  ELSE IF NumberIsInteger(value) /\ value.v >= 0 THEN Ok(value)
  ELSE recordFailure(pointer, field, "must be a non-negative integer")

normalizeRecordOptionalNonNegativeNumber(value, pointer, field) ==
  IF IsNullish(value) THEN Ok(JSNull)
  ELSE IF IsNumber(value) /\ value.v >= 0 THEN Ok(value)
  ELSE recordFailure(pointer, field, "must be a non-negative number")

UpsertFlightSteps ==
  <<"programId", "origin", "destination", "flightNumber", "departureDate",
    "departureTime", "arrivalTime", "arrivalDayOffset", "durationMinutes",
    "routeType", "cabin", "tier", "points", "available", "seatsLeft", "taxesMyr",
    "cashEquivalentMyr">>

\* the exits of the steps of normalizeUpsertFlightInput, combined
upsertFlightInputFrom(steps, notes) ==
  IF ~AllOk(steps, UpsertFlightSteps) THEN FirstFailure(steps, UpsertFlightSteps)
  ELSE Ok([programId |-> steps.programId.value,
           origin |-> steps.origin.value,
           destination |-> steps.destination.value,
           flightNumber |-> steps.flightNumber.value,
           departureDate |-> steps.departureDate.value,
           departureTime |-> steps.departureTime.value,
           arrivalTime |-> steps.arrivalTime.value,
           arrivalDayOffset |-> steps.arrivalDayOffset.value,
           durationMinutes |-> steps.durationMinutes.value,
           routeType |-> steps.routeType.value,
           cabin |-> steps.cabin.value,
           tier |-> steps.tier.value,
           points |-> steps.points.value,
           available |-> steps.available.value,
           seatsLeft |-> steps.seatsLeft.value,
           taxesMyr |-> round2(steps.taxesMyr.value),
           cashEquivalentMyr |->
             IF IsNullish(steps.cashEquivalentMyr.value) THEN JSNull
             ELSE round2(steps.cashEquivalentMyr.value),
           notes |-> Coalesce(notes, JSNull)])

\* pointer is `records[${index}]`
normalizeRecordAt(input, pointer) ==
  upsertFlightInputFrom(
    [programId |-> requireRecordText(input.programId, pointer, "program_id"),
     origin |-> requireRecordIata(input.origin, pointer, "origin", Str(DEFAULT_ORIGIN)),
     destination |-> requireRecordIata(input.destination, pointer, "destination", JSUndefined),
     flightNumber |-> requireRecordText(input.flightNumber, pointer, "flight_number"),
     departureDate |-> requireRecordIsoDate(input.departureDate, pointer, "departure_date"),
     departureTime |-> requireRecordTime(input.departureTime, pointer, "departure_time"),
     arrivalTime |-> requireRecordTime(input.arrivalTime, pointer, "arrival_time"),
     arrivalDayOffset |-> normalizeRecordArrivalDayOffset(input.arrivalDayOffset, pointer),
     durationMinutes |->
       requireRecordPositiveInt(input.durationMinutes, pointer, "duration_minutes"),
     routeType |-> normalizeRecordRouteType(input.routeType, pointer),
     cabin |-> normalizeRecordCabin(input.cabin, pointer),
     tier |-> requireRecordText(input.tier, pointer, "tier"),
     points |-> requireRecordPositiveInt(input.points, pointer, "points"),
     available |-> normalizeRecordAvailable(input.available, pointer),
     seatsLeft |->
       normalizeRecordOptionalNonNegativeInt(input.seatsLeft, pointer, "seats_left"),
     taxesMyr |-> requireRecordNonNegativeNumber(input.taxesMyr, pointer, "taxes_myr"),
     cashEquivalentMyr |->
       normalizeRecordOptionalNonNegativeNumber(input.cashEquivalentMyr, pointer,
                                                "cash_equivalent_myr")],
    input.notes)

\* Variant of normalizeUpsertFlightInput that counts the records from one
normalizeUpsertFlightInputFromOne(input, index) ==
  normalizeRecordAt(input, "records[" \o ToString(index + 1) \o "]")

\* index is the zero-based position of input in the batch
normalizeUpsertFlightInput(input, index) ==
  normalizeRecordAt(input, "records[" \o ToString(index) \o "]")

\* items.slice(i, i + size) for i = 0, size, 2 * size, ...
RECURSIVE chunkArrayFrom(_, _, _)
chunkArrayFrom(items, size, i) ==
  IF i >= Len(items) THEN <<>>
  ELSE LET end == IF i + size < Len(items) THEN i + size ELSE Len(items)
       IN <<SubSeq(items, i + 1, end)>> \o chunkArrayFrom(items, size, i + size)

\* Variant of chunkArray whose slices run one item too far: slice(i, i + size + 1)
chunkArrayOversize(items, size) == chunkArrayFrom(items, size + 1, 0)

chunkArray(items, size) == chunkArrayFrom(items, size, 0)

---------------------------------------------------------------------------
(* services/flights.ts: query builder *)

RECURSIVE Join(_, _)
Join(parts, sep) ==
  IF Len(parts) = 0 THEN ""
  ELSE IF Len(parts) = 1 THEN parts[1]
  ELSE parts[1] \o sep \o Join(Tail(parts), sep)

\* a predicate pushed when cond holds, with the parameters pushed with it
PushIf(cond, predicate, params) ==
  IF cond THEN [where |-> <<predicate>>, params |-> params]
  ELSE [where |-> <<>>, params |-> <<>>]

ConcatPushed(a, b) == [where |-> a.where \o b.where, params |-> a.params \o b.params]

RECURSIVE ConcatAllPushed(_)
ConcatAllPushed(pushes) ==
  IF Len(pushes) = 0 THEN [where |-> <<>>, params |-> <<>>]
  ELSE ConcatPushed(pushes[1], ConcatAllPushed(Tail(pushes)))

\* `WHERE ${where.join(" AND ")}` and the params pushed along
WhereSql(acc) == [params |-> acc.params, sql |-> "WHERE " \o Join(acc.where, " AND ")]

WhereClause(pushes) == WhereSql(ConcatAllPushed(pushes))

\* Variant of buildWhereClause that pushes the range predicates also when
\* date is set
buildWhereClauseWithRanges(filters) ==
  WhereClause(<<
        PushIf(TRUE, "origin = ?", <<filters.origin>>),
        PushIf(TRUE, "destination = ?", <<filters.destination>>),
        PushIf(Truthy(filters.date), "departure_date = ?", <<filters.date.v>>),
        PushIf(Truthy(filters.dateFrom), "departure_date >= ?", <<filters.dateFrom.v>>),
        PushIf(Truthy(filters.dateTo), "departure_date <= ?", <<filters.dateTo.v>>),
        PushIf(Truthy(filters.cabin), "cabin = ?", <<filters.cabin.v>>),
        PushIf(Truthy(filters.tier), "tier = ?", <<filters.tier.v>>),
        PushIf(Truthy(filters.programId), "program_id = ?", <<filters.programId.v>>),
        PushIf(filters.availableOnly, "available = 1", <<>>),
        PushIf(~IsNullish(filters.pointsMax), "points <= ?", <<filters.pointsMax.v>>),
        PushIf(~IsNullish(filters.pointsMin), "points >= ?", <<filters.pointsMin.v>>)>>)

buildWhereClause(filters) ==
  WhereClause(<<
        PushIf(TRUE, "origin = ?", <<filters.origin>>),
        PushIf(TRUE, "destination = ?", <<filters.destination>>),
        PushIf(Truthy(filters.date), "departure_date = ?", <<filters.date.v>>),
        PushIf(~Truthy(filters.date) /\ Truthy(filters.dateFrom),
               "departure_date >= ?", <<filters.dateFrom.v>>),
        PushIf(~Truthy(filters.date) /\ Truthy(filters.dateTo),
               "departure_date <= ?", <<filters.dateTo.v>>),
        PushIf(Truthy(filters.cabin), "cabin = ?", <<filters.cabin.v>>),
        PushIf(Truthy(filters.tier), "tier = ?", <<filters.tier.v>>),
        PushIf(Truthy(filters.programId), "program_id = ?", <<filters.programId.v>>),
        PushIf(filters.availableOnly, "available = 1", <<>>),
        PushIf(~IsNullish(filters.pointsMax), "points <= ?", <<filters.pointsMax.v>>),
        PushIf(~IsNullish(filters.pointsMin), "points >= ?", <<filters.pointsMin.v>>)>>)

---------------------------------------------------------------------------
(* The store: table award_flights behind prepare/bind/all/first/run/batch *)

\* INSERT INTO award_flights (...), in the order of the VALUES placeholders
InsertColumns ==
  <<"program_id", "origin", "destination", "flight_number", "departure_date",
    "departure_time", "arrival_time", "arrival_day_offset", "duration_minutes",
    "route_type", "cabin", "tier", "points", "available", "seats_left",
    "taxes_myr", "cash_equivalent_myr", "notes">>

\* ON CONFLICT(...): the columns of uq_flight_route_date_cabin_tier
ConflictTarget ==
  {"program_id", "origin", "destination", "flight_number", "departure_date",
   "cabin", "tier"}

\* DO UPDATE SET <column> = excluded.<column>
UpdateColumns ==
  {"departure_time", "arrival_time", "arrival_day_offset", "duration_minutes",
   "route_type", "points", "available", "seats_left", "taxes_myr",
   "cash_equivalent_myr", "notes"}

IntegerColumns ==
  {"id", "arrival_day_offset", "duration_minutes", "points", "available"}

\* .bind(flight.programId, ..., flight.notes)
BindFlight(flight) ==
  <<flight.programId, flight.origin, flight.destination, flight.flightNumber,
    flight.departureDate, flight.departureTime, flight.arrivalTime,
    flight.arrivalDayOffset, flight.durationMinutes, flight.routeType,
    flight.cabin, flight.tier, flight.points,
    IF flight.available THEN 1 ELSE 0,
    flight.seatsLeft, flight.taxesMyr, flight.cashEquivalentMyr, flight.notes>>

ColumnIndex(col) == CHOOSE i \in DOMAIN InsertColumns : InsertColumns[i] = col

\* the row "excluded": the values the INSERT proposes
ExcludedRow(params, id, t) ==
  [col \in {"id", "created_at", "updated_at"} \cup ConflictTarget \cup UpdateColumns |->
     IF col = "id" THEN id
     ELSE IF col \in {"created_at", "updated_at"} THEN t
     ELSE params[ColumnIndex(col)]]

\* Variant of ConflictingRows for a table without the unique index
NoConflictingRows(rows, excluded) == {}

\* Variant of ConflictingRows for a unique index on the route alone
ConflictingRowsOnRoute(rows, excluded) ==
  {r \in rows : \A col \in {"program_id", "origin", "destination"} : r[col] = excluded[col]}

\* rows that collide with the proposed row on the unique index
ConflictingRows(rows, excluded) ==
  {r \in rows : \A col \in ConflictTarget : r[col] = excluded[col]}

\* Variant of ConflictUpdate that replaces the row the way INSERT OR REPLACE does
ConflictReplace(row, excluded, t) == excluded

\* Variant of ConflictUpdate that keeps the row as it is, the way DO NOTHING
\* does
ConflictKeep(row, excluded, t) == row

\* DO UPDATE SET ..., updated_at = datetime('now')
ConflictUpdate(row, excluded, t) ==
  [col \in DOMAIN row |->
     IF col \in UpdateColumns THEN excluded[col]
     ELSE IF col = "updated_at" THEN t
     ELSE row[col]]

\* FOREIGN KEY (program_id) REFERENCES programs(id)
ForeignKeyHolds(excluded) == excluded["program_id"] \in Programs

\* one INSERT ... ON CONFLICT DO UPDATE on db = [rows, nextId]
ExecUpsertStatement(db, params, t) ==
  LET excluded == ExcludedRow(params, db.nextId, t)
      hit == ConflictingRows(db.rows, excluded)
  IN IF ~ForeignKeyHolds(excluded) THEN [ok |-> FALSE, rows |-> db.rows, nextId |-> db.nextId]
     ELSE IF hit = {}
     THEN [ok |-> TRUE, rows |-> db.rows \cup {excluded}, nextId |-> db.nextId + 1]
     ELSE [ok |-> TRUE,
           rows |-> (db.rows \ hit) \cup {ConflictUpdate(r, excluded, t) : r \in hit},
           nextId |-> db.nextId]

\* the statements of a batch in order, up to the first that fails
RECURSIVE ExecStatements(_, _, _)
RECURSIVE ExecRest(_, _, _)
ExecStatements(db, statements, t) ==
  IF Len(statements) = 0 THEN [ok |-> TRUE, rows |-> db.rows, nextId |-> db.nextId]
  ELSE ExecRest(ExecUpsertStatement(db, statements[1], t), Tail(statements), t)

ExecRest(first, rest, t) ==
  IF ~first.ok THEN first ELSE ExecStatements(first, rest, t)

\* a batch is one unit: when a statement fails the table is as before the call
BatchOutcome(db, out) ==
  IF out.ok THEN out ELSE [ok |-> FALSE, rows |-> db.rows, nextId |-> db.nextId]

\* db.batch(statements)
ExecBatch(db, statements, t) == BatchOutcome(db, ExecStatements(db, statements, t))

\* text.split(sep)
RECURSIVE Split(_, _)
Split(text, sep) ==
  LET n == Len(sep)
      hits == {i \in 1..(Len(text) - n + 1) : SubSeq(text, i, i + n - 1) = sep}
  IN IF hits = {} THEN <<text>>
     ELSE LET i == CHOOSE h \in hits : \A g \in hits : h <= g
          IN <<SubSeq(text, 1, i - 1)>> \o Split(SubSeq(text, i + n, Len(text)), sep)

\* the predicates of "WHERE p1 AND p2 ...", each as <<column, operator, operand>>
ParseWhere(sql) ==
  LET body == SubSeq(sql, Len("WHERE ") + 1, Len(sql))
      preds == Split(body, " AND ")
  IN [i \in DOMAIN preds |-> Split(preds[i], " ")]

\* number of ? placeholders among the first n predicates
RECURSIVE PlaceholdersBefore(_, _)
PlaceholdersBefore(preds, n) ==
  IF n = 0 THEN 0
  ELSE PlaceholdersBefore(preds, n - 1) + (IF preds[n][3] = "?" THEN 1 ELSE 0)

SqlCompare(col, op, left, right) ==
  IF op = "=" THEN left = right
  ELSE IF col \in IntegerColumns
       THEN (IF op = "<=" THEN left <= right ELSE left >= right)
       ELSE (IF op = "<=" THEN StrLeq(left, right) ELSE StrLeq(right, left))

\* does row satisfy the WHERE text under the bound parameters
RowMatches(row, sql, params) ==
  LET preds == ParseWhere(sql)
  IN \A i \in DOMAIN preds :
       LET col == preds[i][1]
           operand == IF preds[i][3] = "?"
                      THEN params[PlaceholdersBefore(preds, i)]
                      ELSE DigitsToNat(preds[i][3])
       IN SqlCompare(col, preds[i][2], row[col], operand)

SelectWhere(rows, sql, params) == {r \in rows : RowMatches(r, sql, params)}

---------------------------------------------------------------------------
(* services/flights.ts: upsertFlights *)

\* the normalization loop: normalized.push(...) per record, leaving at the
\* first record that fails
normalizedFrom(steps) ==
  IF ~AllOk(steps, [i \in DOMAIN steps |-> i])
  THEN FirstFailure(steps, [i \in DOMAIN steps |-> i])
  ELSE Ok([i \in DOMAIN steps |-> steps[i].value])

\* some record of the batch fails normalizeUpsertFlightInput
HasFailure(flights) ==
  \E i \in DOMAIN flights : ~normalizeUpsertFlightInput(flights[i], i - 1).ok

\* Variant of upsertValidate that normalizes the records of the first chunk
\* only, as a loop validating chunk by chunk would before its first write.
upsertValidateFirstChunk(flights) ==
  IF Len(flights) = 0
  THEN validationFailure("Request body must include at least one flight record")
  ELSE IF Len(flights) > MAX_UPSERT_RECORDS
  THEN validationFailure("Maximum " \o ToString(MAX_UPSERT_RECORDS)
                           \o " records allowed per request")
  ELSE normalizedFrom([i \in 1..(IF Len(flights) < D1_BATCH_SIZE THEN Len(flights)
                                  ELSE D1_BATCH_SIZE) |->
                         normalizeUpsertFlightInput(flights[i], i - 1)])

\* Variant of upsertValidate that normalizes the records before it checks
\* the size of the batch.
upsertValidateRecordsFirst(flights) ==
  IF HasFailure(flights)
  THEN normalizedFrom([i \in 1..Len(flights) |->
                         normalizeUpsertFlightInput(flights[i], i - 1)])
  ELSE IF Len(flights) = 0
  THEN validationFailure("Request body must include at least one flight record")
  ELSE IF Len(flights) > MAX_UPSERT_RECORDS
  THEN validationFailure("Maximum " \o ToString(MAX_UPSERT_RECORDS)
                           \o " records allowed per request")
  ELSE normalizedFrom([i \in 1..Len(flights) |->
                         normalizeUpsertFlightInput(flights[i], i - 1)])

\* the batch-size checks and the normalization loop, before any store call
upsertValidate(flights) ==
  IF Len(flights) = 0
  THEN validationFailure("Request body must include at least one flight record")
  ELSE IF Len(flights) > MAX_UPSERT_RECORDS
  THEN validationFailure("Maximum " \o ToString(MAX_UPSERT_RECORDS)
                           \o " records allowed per request")
  ELSE normalizedFrom([i \in 1..Len(flights) |->
                         normalizeUpsertFlightInput(flights[i], i - 1)])

\* chunk.map((flight) => db.prepare(...).bind(...)) for the k-th chunk
upsertStatements(normalized, k) ==
  LET chunk == chunkArray(normalized, D1_BATCH_SIZE)[k]
  IN [i \in 1..Len(chunk) |-> BindFlight(chunk[i])]

\* the request with the batched write of chunk k in its log of store calls
withBatchCall(r, statements, ok) ==
  [r EXCEPT !.calls = Append(@, [op |-> "batch", statements |-> statements, ok |-> ok])]

\* Variant of upsertAfterBatch that goes on to the next chunk after a failure
upsertAfterBatchIgnoringFailure(r, statements, ok) ==
  IF r.k < Len(chunkArray(r.normalized, D1_BATCH_SIZE))
  THEN [withBatchCall(r, statements, ok) EXCEPT !.k = r.k + 1]
  ELSE [withBatchCall(r, statements, ok) EXCEPT
          !.pc = "done", !.result = Ok([upserted |-> Len(r.normalized)])]

\* Variant of upsertAfterBatch that submits a failed chunk again
upsertAfterBatchRetrying(r, statements, ok) ==
  IF ~ok
  THEN withBatchCall(r, statements, ok)
  ELSE IF r.k < Len(chunkArray(r.normalized, D1_BATCH_SIZE))
  THEN [withBatchCall(r, statements, ok) EXCEPT !.k = r.k + 1]
  ELSE [withBatchCall(r, statements, ok) EXCEPT
          !.pc = "done", !.result = Ok([upserted |-> Len(r.normalized)])]

\* Variant of upsertAfterBatch that reports the size of the last chunk
upsertAfterBatchCountingChunk(r, statements, ok) ==
  IF ~ok
  THEN [withBatchCall(r, statements, ok) EXCEPT
          !.pc = "done", !.result = databaseFailure("Failed to upsert award flights")]
  ELSE IF r.k < Len(chunkArray(r.normalized, D1_BATCH_SIZE))
  THEN [withBatchCall(r, statements, ok) EXCEPT !.k = r.k + 1]
  ELSE [withBatchCall(r, statements, ok) EXCEPT
          !.pc = "done", !.result = Ok([upserted |-> Len(statements)])]

\* the request after the batched write of chunk k returned (ok) or threw
upsertAfterBatch(r, statements, ok) ==
  IF ~ok
  THEN [withBatchCall(r, statements, ok) EXCEPT
          !.pc = "done", !.result = databaseFailure("Failed to upsert award flights")]
  ELSE IF r.k < Len(chunkArray(r.normalized, D1_BATCH_SIZE))
  THEN [withBatchCall(r, statements, ok) EXCEPT !.k = r.k + 1]
  ELSE [withBatchCall(r, statements, ok) EXCEPT
          !.pc = "done", !.result = Ok([upserted |-> Len(r.normalized)])]

---------------------------------------------------------------------------
(* services/flights.ts: deleteFlights *)

\* Variant of deleteWhereClause that leaves the cabin predicate out
deleteWhereClauseAnyCabin(normalized) ==
  WhereClause(<<
        PushIf(TRUE, "program_id = ?", <<normalized.programId>>),
        PushIf(TRUE, "destination = ?", <<normalized.destination>>),
        PushIf(TRUE, "origin = ?", <<normalized.origin>>),
        PushIf(Truthy(normalized.dateFrom), "departure_date >= ?", <<normalized.dateFrom.v>>),
        PushIf(Truthy(normalized.dateTo), "departure_date <= ?", <<normalized.dateTo.v>>)>>)

\* where / params of the DELETE
deleteWhereClause(normalized) ==
  WhereClause(<<
        PushIf(TRUE, "program_id = ?", <<normalized.programId>>),
        PushIf(TRUE, "destination = ?", <<normalized.destination>>),
        PushIf(TRUE, "origin = ?", <<normalized.origin>>),
        PushIf(Truthy(normalized.dateFrom), "departure_date >= ?", <<normalized.dateFrom.v>>),
        PushIf(Truthy(normalized.dateTo), "departure_date <= ?", <<normalized.dateTo.v>>),
        PushIf(Truthy(normalized.cabin), "cabin = ?", <<normalized.cabin.v>>)>>)

\* Math.trunc
MathTrunc(x) == IF x.v < 0 /\ x.frac > 0 THEN x.v + 1 ELSE x.v

changesFromRun(result) ==
  LET changes == toNullableNumber(result.meta.changes)
  IN IF IsNullish(changes) THEN 0
     ELSE IF MathTrunc(changes) > 0 THEN MathTrunc(changes) ELSE 0

---------------------------------------------------------------------------
(* services/flights.ts: searchFlights *)

\* Variant of searchOrderBy that orders by date whatever the sort key
searchOrderByDate(normalized) == <<"departure_date", "departure_time", "points">>

searchOrderBy(normalized) ==
  IF normalized.sort = "points"
  THEN <<"points", "departure_date", "departure_time">>
  ELSE <<"departure_date", "departure_time", "points">>

\* the row-fetch statement: where.sql, orderBy, LIMIT ? OFFSET ?
searchRowsQuery(where, normalized) ==
  [where |-> where.sql, orderBy |-> searchOrderBy(normalized),
   params |-> where.params \o <<normalized.limit, normalized.offset>>]

\* Variant of searchCountQuery that counts the route, whatever the other filters
searchCountRoute(where) ==
  [where |-> "WHERE origin = ? AND destination = ?", params |-> SubSeq(where.params, 1, 2)]

\* SELECT COUNT(*) AS total FROM award_flights ${where.sql}
searchCountQuery(where) == [where |-> where.sql, params |-> where.params]

\* a ORDER BY columns b: not after b
RECURSIVE OrderedBefore(_, _, _)
OrderedBefore(a, b, columns) ==
  IF Len(columns) = 0 THEN TRUE
  ELSE LET col == columns[1]
       IN IF a[col] = b[col] THEN OrderedBefore(a, b, Tail(columns))
          ELSE IF col \in IntegerColumns THEN a[col] < b[col]
          ELSE StrLess(a[col], b[col])

\* the orders in which the store may return rows under ORDER BY columns:
\* rows equal on every column come in any order
SortedOrders(rows, columns) ==
  {order \in [1..Cardinality(rows) -> rows] :
     /\ \A i, j \in DOMAIN order : i # j => order[i] # order[j]
     /\ \A i, j \in DOMAIN order : i < j => OrderedBefore(order[i], order[j], columns)}

\* LIMIT limit OFFSET offset
LimitOffset(order, limit, offset) ==
  SubSeq(order, offset + 1, IF offset + limit < Len(order) THEN offset + limit ELSE Len(order))

toAwardFlightRow(row) ==
  [id |-> row["id"], program_id |-> row["program_id"], origin |-> row["origin"],
   destination |-> row["destination"], flight_number |-> row["flight_number"],
   departure_date |-> row["departure_date"], departure_time |-> row["departure_time"],
   arrival_time |-> row["arrival_time"], arrival_day_offset |-> row["arrival_day_offset"],
   duration_minutes |-> row["duration_minutes"], route_type |-> row["route_type"],
   cabin |-> row["cabin"], tier |-> row["tier"], points |-> row["points"],
   available |-> (row["available"] = 1),
   seats_left |-> toNullableNumber(row["seats_left"]),
   taxes_myr |-> round2(row["taxes_myr"]),
   cash_equivalent_myr |->
     IF IsNullish(row["cash_equivalent_myr"]) THEN JSNull
     ELSE round2(row["cash_equivalent_myr"]),
   notes |-> row["notes"], created_at |-> row["created_at"],
   updated_at |-> row["updated_at"]]

searchResult(r, total) ==
  Ok([data |-> [i \in DOMAIN r.fetched |-> toAwardFlightRow(r.fetched[i])],
      meta |-> [total |-> total, limit |-> r.normalized.limit,
                offset |-> r.normalized.offset]])

---------------------------------------------------------------------------
(* services/flights.ts: getFlightStats, getDestinations, getCheapestByDate *)

MinOf(S) == CHOOSE x \in S : \A y \in S : x <= y

MaxOf(S) == CHOOSE x \in S : \A y \in S : x >= y

MinStr(S) == CHOOSE x \in S : \A y \in S : StrLeq(x, y)

MaxStr(S) == CHOOSE x \in S : \A y \in S : StrLeq(y, x)

RECURSIVE SumOf(_, _)
SumOf(rows, col) ==
  IF rows = {} THEN 0
  ELSE LET r == CHOOSE x \in rows : TRUE
       IN r[col] + SumOf(rows \ {r}, col)

\* AVG(points), kept to thousandths
SqlAvg(rows, col) ==
  LET sum == SumOf(rows, col)
      n == Cardinality(rows)
  IN Dec(sum \div n, ((sum % n) * 1000) \div n)

\* MIN(col) / MAX(col) over rows; NULL over no rows
SqlMinInt(rows, col) == IF rows = {} THEN JSNull ELSE Num(MinOf({r[col] : r \in rows}))

SqlMaxInt(rows, col) == IF rows = {} THEN JSNull ELSE Num(MaxOf({r[col] : r \in rows}))

SqlMinStr(rows, col) == IF rows = {} THEN JSNull ELSE Str(MinStr({r[col] : r \in rows}))

SqlMaxStr(rows, col) == IF rows = {} THEN JSNull ELSE Str(MaxStr({r[col] : r \in rows}))

\* Variant of SqlAvailableCount that counts every row of the group
SqlAvailableCountAll(rows) == Cardinality(rows)

\* SUM(CASE WHEN available = 1 THEN 1 ELSE 0 END)
SqlAvailableCount(rows) == Cardinality({r \in rows : r["available"] = 1})

\* SELECT cabin, tier, MIN, MAX, AVG, COUNT, SUM ... GROUP BY cabin, tier
statsGroupRows(rows) ==
  {[cabin |-> g[1], tier |-> g[2],
    min_points |-> SqlMinInt({r \in rows : r["cabin"] = g[1] /\ r["tier"] = g[2]}, "points"),
    max_points |-> SqlMaxInt({r \in rows : r["cabin"] = g[1] /\ r["tier"] = g[2]}, "points"),
    avg_points |-> SqlAvg({r \in rows : r["cabin"] = g[1] /\ r["tier"] = g[2]}, "points"),
    total |-> Cardinality({r \in rows : r["cabin"] = g[1] /\ r["tier"] = g[2]}),
    available_count |->
      SqlAvailableCount({r \in rows : r["cabin"] = g[1] /\ r["tier"] = g[2]})]
   : g \in {<<r["cabin"], r["tier"]>> : r \in rows}}

\* SELECT COUNT(*), MIN(departure_date), MAX(departure_date), MAX(updated_at)
statsSummaryRow(rows) ==
  [total_flights |-> Cardinality(rows),
   min_date |-> SqlMinStr(rows, "departure_date"),
   max_date |-> SqlMaxStr(rows, "departure_date"),
   last_updated |-> SqlMaxInt(rows, "updated_at")]

\* Variant of statsByCabin that returns byCabin[cabin] as it is, an empty
\* object when the cabin has no group
statsByCabinEmptyObject(groups, cabin) ==
  LET mine == {g \in groups : isCabin(g.cabin) /\ g.cabin = cabin /\ g.tier # ""}
  IN [tier \in {g.tier : g \in mine} |->
        LET g == CHOOSE x \in mine : x.tier = tier
        IN [min_points |-> g.min_points.v, max_points |-> g.max_points.v,
            avg_points |-> round2(g.avg_points),
            available_count |-> g.available_count]]

\* byCabin[cabin] after the loop over the group rows, through toNullableObject
statsByCabin(groups, cabin) ==
  LET mine == {g \in groups : isCabin(g.cabin) /\ g.cabin = cabin /\ g.tier # ""}
  IN IF mine = {} THEN JSNull
     ELSE [tier \in {g.tier : g \in mine} |->
             LET g == CHOOSE x \in mine : x.tier = tier
             IN [min_points |-> g.min_points.v, max_points |-> g.max_points.v,
                 avg_points |-> round2(g.avg_points),
                 available_count |-> g.available_count]]

\* Variant of statsResult that reports the dates of the matching rows before
\* those of the filters
statsResultComputedFirst(r, summary) ==
  Ok([origin |-> r.normalized.origin,
      destination |-> r.normalized.destination,
      date_range |->
        [from |-> Coalesce(summary.min_date,
                           Coalesce(r.normalized.date, r.normalized.dateFrom)),
         to |-> Coalesce(summary.max_date,
                         Coalesce(r.normalized.date, r.normalized.dateTo))],
      economy |-> statsByCabin(r.fetched, "economy"),
      business |-> statsByCabin(r.fetched, "business"),
      first |-> statsByCabin(r.fetched, "first"),
      total_flights |-> summary.total_flights,
      last_updated |-> summary.last_updated])

statsResult(r, summary) ==
  Ok([origin |-> r.normalized.origin,
      destination |-> r.normalized.destination,
      date_range |->
        [from |-> Coalesce(Coalesce(r.normalized.date, r.normalized.dateFrom),
                           summary.min_date),
         to |-> Coalesce(Coalesce(r.normalized.date, r.normalized.dateTo),
                         summary.max_date)],
      economy |-> statsByCabin(r.fetched, "economy"),
      business |-> statsByCabin(r.fetched, "business"),
      first |-> statsByCabin(r.fetched, "first"),
      total_flights |-> summary.total_flights,
      last_updated |-> summary.last_updated])

DestinationsSteps == <<"origin", "dates", "cabin", "availableOnly">>

\* the exits of the steps of normalizeDestinationsInput, combined
destinationsInputFrom(steps) ==
  IF ~AllOk(steps, DestinationsSteps) THEN FirstFailure(steps, DestinationsSteps)
  ELSE Ok([origin |-> steps.origin.value, dateFrom |-> steps.dates.value.dateFrom,
           dateTo |-> steps.dates.value.dateTo, cabin |-> steps.cabin.value,
           availableOnly |-> steps.availableOnly.value])

normalizeDestinationsInput(input) ==
  destinationsInputFrom(
    [origin |-> requireIataField(input.origin, "origin", Str(DEFAULT_ORIGIN)),
     dates |-> normalizeDateFilters(JSUndefined, input.dateFrom, input.dateTo),
     cabin |-> normalizeCabinField(input.cabin),
     availableOnly |-> normalizeAvailableOnly(input.availableOnly)])

destinationsWhereClause(normalized) ==
  WhereClause(<<
        PushIf(TRUE, "origin = ?", <<normalized.origin>>),
        PushIf(Truthy(normalized.dateFrom), "departure_date >= ?", <<normalized.dateFrom.v>>),
        PushIf(Truthy(normalized.dateTo), "departure_date <= ?", <<normalized.dateTo.v>>),
        PushIf(Truthy(normalized.cabin), "cabin = ?", <<normalized.cabin.v>>),
        PushIf(normalized.availableOnly, "available = 1", <<>>)>>)

\* MIN(CASE WHEN cabin = '<cabin>' THEN points END)
CabinMinPoints(rows, cabin) == SqlMinInt({r \in rows : r["cabin"] = cabin}, "points")

\* the values of GROUP BY col, in the order of ORDER BY col
GroupKeysOf(keys) ==
  CHOOSE f \in [1..Cardinality(keys) -> keys] :
    \A i, j \in 1..Cardinality(keys) : i < j => StrLess(f[i], f[j])

GroupKeys(rows, col) == GroupKeysOf({r[col] : r \in rows})

destinationSummary(destination, rows) ==
  [destination |-> destination,
   flight_count |-> Cardinality(rows),
   date_range |-> [from |-> SqlMinStr(rows, "departure_date"),
                   to |-> SqlMaxStr(rows, "departure_date")],
   economy_min_points |-> CabinMinPoints(rows, "economy"),
   business_min_points |-> CabinMinPoints(rows, "business"),
   first_min_points |-> CabinMinPoints(rows, "first"),
   available_count |-> SqlAvailableCount(rows),
   last_updated |-> SqlMaxInt(rows, "updated_at")]

destinationRows(rows, keys) ==
  [i \in DOMAIN keys |->
     destinationSummary(keys[i], {r \in rows : r["destination"] = keys[i]})]

destinationsResult(rows) == Ok(destinationRows(rows, GroupKeys(rows, "destination")))

CheapestSteps == <<"destination", "origin", "dates", "cabin", "availableOnly">>

\* the exits of the steps of normalizeCheapestByDateInput, combined
cheapestInputFrom(steps, programId) ==
  IF ~AllOk(steps, CheapestSteps) THEN FirstFailure(steps, CheapestSteps)
  ELSE Ok([destination |-> steps.destination.value, origin |-> steps.origin.value,
           dateFrom |-> steps.dates.value.dateFrom, dateTo |-> steps.dates.value.dateTo,
           cabin |-> steps.cabin.value, programId |-> programId,
           availableOnly |-> steps.availableOnly.value])

normalizeCheapestByDateInput(input) ==
  cheapestInputFrom(
    [destination |-> requireIataField(input.destination, "destination", JSUndefined),
     origin |-> requireIataField(input.origin, "origin", Str(DEFAULT_ORIGIN)),
     dates |-> normalizeDateFilters(JSUndefined, input.dateFrom, input.dateTo),
     cabin |-> normalizeCabinField(input.cabin),
     availableOnly |-> normalizeAvailableOnly(input.availableOnly)],
    normalizeOptionalString(input.programId))

\* Variant of cheapestWhereClause that writes the program id into the text
cheapestWhereClauseInterpolated(normalized) ==
  WhereClause(<<
        PushIf(TRUE, "origin = ?", <<normalized.origin>>),
        PushIf(TRUE, "destination = ?", <<normalized.destination>>),
        PushIf(Truthy(normalized.dateFrom), "departure_date >= ?", <<normalized.dateFrom.v>>),
        PushIf(Truthy(normalized.dateTo), "departure_date <= ?", <<normalized.dateTo.v>>),
        PushIf(Truthy(normalized.cabin), "cabin = ?", <<normalized.cabin.v>>),
        PushIf(Truthy(normalized.programId),
               "program_id = '" \o normalized.programId.v \o "'", <<>>),
        PushIf(normalized.availableOnly, "available = 1", <<>>)>>)

cheapestWhereClause(normalized) ==
  WhereClause(<<
        PushIf(TRUE, "origin = ?", <<normalized.origin>>),
        PushIf(TRUE, "destination = ?", <<normalized.destination>>),
        PushIf(Truthy(normalized.dateFrom), "departure_date >= ?", <<normalized.dateFrom.v>>),
        PushIf(Truthy(normalized.dateTo), "departure_date <= ?", <<normalized.dateTo.v>>),
        PushIf(Truthy(normalized.cabin), "cabin = ?", <<normalized.cabin.v>>),
        PushIf(Truthy(normalized.programId), "program_id = ?", <<normalized.programId.v>>),
        PushIf(normalized.availableOnly, "available = 1", <<>>)>>)

\* MAX(CASE WHEN cabin = '<cabin>' AND available = 1 THEN 1 ELSE 0 END)
CabinAnyAvailable(rows, cabin) ==
  IF \E r \in rows : r["cabin"] = cabin /\ r["available"] = 1 THEN 1 ELSE 0

cheapestCabin(rows, cabin) ==
  LET min == CabinMinPoints(rows, cabin)
  IN IF IsNullish(min) THEN JSNull
     ELSE [min_points |-> min.v, available |-> (CabinAnyAvailable(rows, cabin) = 1)]

datePricing(date, rows) ==
  [departure_date |-> date,
   economy |-> cheapestCabin(rows, "economy"),
   business |-> cheapestCabin(rows, "business"),
   first |-> cheapestCabin(rows, "first"),
   last_updated |-> SqlMaxInt(rows, "updated_at")]

datePricingRows(rows, keys) ==
  [i \in DOMAIN keys |->
     datePricing(keys[i], {r \in rows : r["departure_date"] = keys[i]})]

cheapestResult(rows) == Ok(datePricingRows(rows, GroupKeys(rows, "departure_date")))

---------------------------------------------------------------------------
(* routes/flights.ts: from the request to the service input.  A query is a  *)
(* record of its parameters, each a string or undefined.                    *)

\* String.prototype.toLowerCase on the letters of Ascii
RECURSIVE ToLowerCase(_)
ToLowerCase(s) ==
  IF Len(s) = 0 THEN ""
  ELSE (IF IsUpper(CharAt(s, 1))
        THEN CharAt(Ascii, CharCode(CharAt(s, 1)) + 26)
        ELSE CharAt(s, 1)) \o ToLowerCase(SubSeq(s, 2, Len(s)))

\* INTEGER_QUERY_RE = /^-?\d+$/
MatchesIntegerQueryRe(s) ==
  IF Len(s) > 0 /\ CharAt(s, 1) = "-"
  THEN Len(s) > 1 /\ \A i \in 2..Len(s) : IsDigit(CharAt(s, i))
  ELSE Len(s) > 0 /\ \A i \in 1..Len(s) : IsDigit(CharAt(s, i))

RECURSIVE StripLeadingZeros(_)
StripLeadingZeros(digits) ==
  IF Len(digits) > 1 /\ CharAt(digits, 1) = "0"
  THEN StripLeadingZeros(SubSeq(digits, 2, Len(digits)))
  ELSE digits

\* Number.isSafeInteger of the number written by digits: at most 2^53 - 1
IsSafeMagnitude(digits) ==
  \/ Len(digits) < 16
  \/ Len(digits) = 16 /\ StrLeq(digits, "9007199254740991")

\* Number.parseInt(trimmed, 10) of a string matching INTEGER_QUERY_RE, or
\* null when the number is not a safe integer
parseSafeInt(negative, digits) ==
  IF ~IsSafeMagnitude(digits) THEN JSNull
  ELSE Num(IF negative THEN 0 - DigitsToNat(digits) ELSE DigitsToNat(digits))

parseTrimmedInt(trimmed) ==
  IF trimmed = "" THEN JSUndefined
  ELSE IF ~MatchesIntegerQueryRe(trimmed) THEN JSNull
  ELSE IF CharAt(trimmed, 1) = "-"
  THEN parseSafeInt(TRUE, StripLeadingZeros(SubSeq(trimmed, 2, Len(trimmed))))
  ELSE parseSafeInt(FALSE, StripLeadingZeros(trimmed))

parseOptionalIntQuery(value) ==
  IF IsNullish(value) THEN JSUndefined ELSE parseTrimmedInt(Trim(value.v))

parseNormalizedBoolean(normalized) ==
  IF normalized = "" THEN JSUndefined
  ELSE IF normalized = "true" THEN Bool(TRUE)
  ELSE IF normalized = "false" THEN Bool(FALSE)
  ELSE JSNull

parseOptionalBooleanQuery(value) ==
  IF IsNullish(value) THEN JSUndefined
  ELSE parseNormalizedBoolean(ToLowerCase(Trim(value.v)))

parseOptionalBooleanBody(value) ==
  IF IsNullish(value) THEN JSUndefined
  ELSE IF value.t = "boolean" THEN value
  ELSE JSNull

\* payload.<name> of asRecord(value): a JSON object is [t |-> "object",
\* fields |-> ...], and a property it does not hold reads undefined
Property(value, name) ==
  IF value.t = "object" /\ name \in DOMAIN value.fields THEN value.fields[name]
  ELSE JSUndefined

toFlightInput(value) ==
  [programId |-> asString(Property(value, "program_id")),
   origin |-> toNullableString(Property(value, "origin")),
   destination |-> asString(Property(value, "destination")),
   flightNumber |-> asString(Property(value, "flight_number")),
   departureDate |-> asString(Property(value, "departure_date")),
   departureTime |-> asString(Property(value, "departure_time")),
   arrivalTime |-> asString(Property(value, "arrival_time")),
   arrivalDayOffset |-> requireNumber(Property(value, "arrival_day_offset")),
   durationMinutes |-> requireNumber(Property(value, "duration_minutes")),
   routeType |-> asString(Property(value, "route_type")),
   cabin |-> asString(Property(value, "cabin")),
   tier |-> asString(Property(value, "tier")),
   points |-> requireNumber(Property(value, "points")),
   available |-> parseOptionalBooleanBody(Property(value, "available")),
   seatsLeft |->
     IF IsNullish(Property(value, "seats_left")) THEN JSNull
     ELSE toNullableNumber(Property(value, "seats_left")),
   taxesMyr |-> requireNumber(Property(value, "taxes_myr")),
   cashEquivalentMyr |->
     IF IsNullish(Property(value, "cash_equivalent_myr")) THEN JSNull
     ELSE toNullableNumber(Property(value, "cash_equivalent_myr")),
   notes |-> toNullableString(Property(value, "notes")),
   scrapedAt |-> toNullableString(Property(value, "scraped_at"))]

\* Array.isArray(body) ? body : [body]; an array is [t |-> "array", items |-> ...]
bodyRecords(body) == IF body.t = "array" THEN body.items ELSE <<body>>

\* records.map((row) => toFlightInput(row))
flightInputsOf(records) == [i \in DOMAIN records |-> toFlightInput(records[i])]

flightInputs(body) == flightInputsOf(bodyRecords(body))

parseSearchQuery(query) ==
  [destination |-> Coalesce(query.destination, Str("")),
   origin |-> Coalesce(query.origin, Str("KUL")),
   date |-> Coalesce(query.date, JSUndefined),
   dateFrom |-> Coalesce(query.date_from, JSUndefined),
   dateTo |-> Coalesce(query.date_to, JSUndefined),
   cabin |-> Coalesce(query.cabin, JSUndefined),
   tier |-> Coalesce(query.tier, JSUndefined),
   programId |-> Coalesce(query.program_id, JSUndefined),
   availableOnly |-> parseOptionalBooleanQuery(query.available_only),
   pointsMax |-> parseOptionalIntQuery(query.points_max),
   pointsMin |-> parseOptionalIntQuery(query.points_min),
   sort |-> Coalesce(query.sort, JSUndefined),
   limit |-> parseOptionalIntQuery(query.limit),
   offset |-> parseOptionalIntQuery(query.offset)]

parseDeleteQuery(query) ==
  [programId |-> Coalesce(query.program_id, Str("")),
   destination |-> Coalesce(query.destination, Str("")),
   origin |-> Coalesce(query.origin, Str("KUL")),
   dateFrom |-> Coalesce(query.date_from, JSUndefined),
   dateTo |-> Coalesce(query.date_to, JSUndefined),
   cabin |-> Coalesce(query.cabin, JSUndefined)]

---------------------------------------------------------------------------
(* Requests *)

NoValue == <<>>

IdleRequest ==
  [pc |-> "idle", op |-> "none", input |-> NoValue, normalized |-> NoValue,
   where |-> NoValue, k |-> 0, calls |-> <<>>, fetched |-> NoValue,
   result |-> NoValue]

\* a finished request hands its response over before any request takes its
\* next step: the hand-over touches nothing the requests share
NoneDone == \A c \in Clients : req[c].pc # "done"

CanStart(c) == NoneDone /\ req[c].pc = "idle" /\ started < MaxRequests

\* request c is at step pc of its operation
At(c, pc) == NoneDone /\ req[c].pc = pc

\* a request that passed validation, with the WHERE clause built from the
\* normalized input, or failed it
Begin(op, input, validated, pc, where) ==
  IF validated.ok
  THEN [IdleRequest EXCEPT !.pc = pc, !.op = op, !.input = input,
                           !.normalized = validated.value, !.where = where,
                           !.k = 1]
  ELSE [IdleRequest EXCEPT !.pc = "done", !.op = op, !.input = input,
                           !.result = validated]

---------------------------------------------------------------------------
(* Inputs *)

FlightA ==
  [programId |-> Str("enrich"), origin |-> JSUndefined, destination |-> Str("AKL"),
   flightNumber |-> Str(" MH131 "), departureDate |-> Str("2024-03-01"),
   departureTime |-> Str("09:30"), arrivalTime |-> Str("20:45"),
   arrivalDayOffset |-> JSUndefined, durationMinutes |-> Num(615),
   routeType |-> Str("direct"), cabin |-> Str("economy"), tier |-> Str("saver"),
   points |-> Num(45000), available |-> JSUndefined, seatsLeft |-> JSNull,
   taxesMyr |-> Dec(123, 456), cashEquivalentMyr |-> JSNull, notes |-> JSNull]

\* the key of FlightA with other mutable fields
FlightA2 ==
  [FlightA EXCEPT !.origin = Str("KUL"), !.flightNumber = Str("MH131"),
                  !.departureTime = Str("10:00"), !.arrivalDayOffset = Num(1),
                  !.points = Num(40000), !.available = Bool(FALSE),
                  !.seatsLeft = Num(2), !.cashEquivalentMyr = Dec(1999, 995),
                  !.notes = Str("promo")]

FlightB == [FlightA EXCEPT !.cabin = Str("business"), !.points = Num(90000)]

FlightBadPoints == [FlightA EXCEPT !.points = JSNull]

FlightBadDate == [FlightB EXCEPT !.departureDate = Str("2024-02-30")]

\* a program id with no row in programs
FlightGhost == [FlightA EXCEPT !.programId = Str("ghost")]

\* another date and cabin
FlightC ==
  [FlightA EXCEPT !.departureDate = Str("2024-03-05"), !.cabin = Str("first"),
                  !.points = Num(120000)]

\* the i-th record of a long batch: two keys in turn, the points tell the position
BulkRecord(i) ==
  [(IF i % 2 = 1 THEN FlightA ELSE FlightB) EXCEPT !.points = Num(40000 + i)]

BulkBatch(n) == [i \in 1..n |-> BulkRecord(i)]

\* one full chunk of valid records, then an invalid record
BatchBadInSecondChunk ==
  [BulkBatch(D1_BATCH_SIZE + 1) EXCEPT ![D1_BATCH_SIZE + 1] = FlightBadPoints]

SmallBatches ==
  {<<>>, <<FlightA>>, <<FlightA2>>, <<FlightB>>, <<FlightA, FlightB>>,
   <<FlightA, FlightBadDate>>, <<FlightBadPoints, FlightA>>, <<FlightGhost>>,
   BatchBadInSecondChunk}

\* batch lengths around the chunk size and the batch limit
BulkSizes ==
  {0, 1, D1_BATCH_SIZE, D1_BATCH_SIZE + 1, 2 * D1_BATCH_SIZE,
   MAX_UPSERT_RECORDS, MAX_UPSERT_RECORDS + 1}

BulkBatches ==
  {BulkBatch(n) : n \in BulkSizes}
    \cup {[BulkBatch(2 * D1_BATCH_SIZE) EXCEPT ![D1_BATCH_SIZE + 25] = FlightGhost],
          [BulkBatch(2 * D1_BATCH_SIZE) EXCEPT ![D1_BATCH_SIZE + 25] = FlightBadPoints],
          [BulkBatch(MAX_UPSERT_RECORDS + 1) EXCEPT ![1] = FlightBadPoints]}

\* batches that fill the table before the reads
SeedBatches == {<<FlightA, FlightB, FlightC>>, <<FlightA2>>, <<FlightC>>}

\* economy flights to AKL on later days, cheaper and dearer than FlightA
FlightLow ==
  [FlightA EXCEPT !.departureDate = Str("2024-03-02"), !.points = Num(30000)]

FlightHigh ==
  [FlightA EXCEPT !.departureDate = Str("2024-03-03"), !.points = Num(60000)]

\* a business flight at the date and time of FlightA, not available
FlightBizOff ==
  [FlightA EXCEPT !.cabin = Str("business"), !.points = Num(30000),
                  !.available = Bool(FALSE)]

\* two economy/saver flights to SYD, the dearer one not available
FlightSydOn == [FlightA EXCEPT !.destination = Str("SYD"), !.points = Num(30000)]

FlightSydOff ==
  [FlightA EXCEPT !.destination = Str("SYD"), !.departureDate = Str("2024-03-02"),
                  !.points = Num(50000), !.available = Bool(FALSE)]

\* batches that fill the table before the paged reads
ReadSeeds ==
  {<<FlightA, FlightLow, FlightHigh>>, <<FlightBizOff>>, <<FlightSydOn, FlightSydOff>>}

\* an economy/saver flight to AKL whose points make the averages fractional
FlightOdd ==
  [FlightA EXCEPT !.departureDate = Str("2024-03-04"), !.points = Num(40001)]

\* another economy/saver flight to AKL on the day of FlightA, cheaper and not
\* available
FlightCheapOff ==
  [FlightA EXCEPT !.flightNumber = Str("MH133"), !.points = Num(20000),
                  !.available = Bool(FALSE)]

\* batches that fill the table before the aggregate reads
AggregateSeeds == ReadSeeds \cup {<<FlightOdd>>, <<FlightCheapOff>>}

\* another economy/saver flight to AKL with the points, the day and the time of
\* FlightA
FlightTwin == [FlightA EXCEPT !.flightNumber = Str("MH135")]

\* batches that fill the table before the page-by-page reads
TiedSeeds == {<<FlightA, FlightTwin>>, <<FlightA, FlightTwin, FlightLow>>, <<FlightLow>>}

\* a JSON object with every property of a flight record
GoodPayload ==
  [t |-> "object",
   fields |->
     [program_id |-> Str("enrich"), origin |-> Str("KUL"), destination |-> Str("AKL"),
      flight_number |-> Str("MH131"), departure_date |-> Str("2024-03-01"),
      departure_time |-> Str("09:30"), arrival_time |-> Str("20:45"),
      arrival_day_offset |-> Num(1), duration_minutes |-> Num(615),
      route_type |-> Str("direct"), cabin |-> Str("economy"), tier |-> Str("saver"),
      points |-> Str("45000"), available |-> Bool(FALSE), seats_left |-> Num(4),
      taxes_myr |-> Str("123.45"), cash_equivalent_myr |-> Dec(1999, 990),
      notes |-> Str("promo")]]

\* payload without the properties named
Without(payload, names) ==
  [payload EXCEPT !.fields = [name \in DOMAIN payload.fields \ names |-> payload.fields[name]]]

\* the same flight in business, with its optional properties left out
MinimalPayload ==
  Without([GoodPayload EXCEPT !.fields.cabin = Str("business")],
          {"origin", "arrival_day_offset", "available", "seats_left",
           "cash_equivalent_myr", "notes"})

\* a property that is present and malformed
MalformedProperties ==
  {<<"arrival_day_offset", Str("abc")>>, <<"arrival_day_offset", Bool(TRUE)>>,
   <<"arrival_day_offset", Num(5)>>, <<"arrival_day_offset", Dec(0, 500)>>,
   <<"seats_left", Str("abc")>>, <<"seats_left", Num(0 - 1)>>,
   <<"seats_left", Dec(1, 500)>>,
   <<"cash_equivalent_myr", Str("abc")>>, <<"cash_equivalent_myr", Num(0 - 1)>>,
   <<"origin", Num(123)>>, <<"origin", Str("kul")>>,
   <<"available", Str("yes")>>, <<"available", Num(1)>>,
   <<"points", Str("many")>>, <<"points", Num(0)>>,
   <<"duration_minutes", Str("1.5")>>, <<"taxes_myr", Str("-1")>>}

MalformedPayloads ==
  {[GoodPayload EXCEPT !.fields[property[1]] = property[2]] :
     property \in MalformedProperties}

\* request bodies with one malformed property: an object, or the second
\* record of an array
MalformedBodies ==
  MalformedPayloads
    \cup {[t |-> "array", items |-> <<MinimalPayload, payload>>] :
            payload \in MalformedPayloads}

\* a record invalid in cabin and in points, one invalid in tier, one that is
\* not an object
PayloadTwoWrong ==
  [GoodPayload EXCEPT !.fields.points = Num(0), !.fields.cabin = Str("lux")]

PayloadNoTier == [GoodPayload EXCEPT !.fields.tier = Str(" ")]

WellFormedBodies ==
  {GoodPayload, MinimalPayload,
   [t |-> "array", items |-> <<GoodPayload, MinimalPayload>>],
   [t |-> "array", items |-> <<>>]}

\* request bodies with several invalid records
ManyWrongBodies ==
  {[t |-> "array", items |-> <<GoodPayload, PayloadTwoWrong, PayloadNoTier>>],
   [t |-> "array", items |-> <<MinimalPayload, GoodPayload, PayloadNoTier, PayloadTwoWrong>>],
   [t |-> "array", items |-> <<Str("flight"), PayloadTwoWrong>>],
   JSNull}

PostBodies == WellFormedBodies \cup MalformedBodies \cup ManyWrongBodies

\* the batches POST /flights hands to upsertFlights
PostBatches ==
  {flightInputs(body) : body \in PostBodies}
    \cup {BatchBadInSecondChunk, <<FlightA, FlightBadDate, FlightBadPoints>>}

BaseDelete ==
  [programId |-> Str("enrich"), destination |-> Str("AKL"), origin |-> Str("KUL"),
   dateFrom |-> JSUndefined, dateTo |-> JSUndefined, cabin |-> JSUndefined]

\* DELETE /flights with no parameter at all
NoDeleteQuery ==
  [program_id |-> JSUndefined, destination |-> JSUndefined, origin |-> JSUndefined,
   date_from |-> JSUndefined, date_to |-> JSUndefined, cabin |-> JSUndefined]

\* queries that name optional filters without a program or a destination
DeleteQueries ==
  {[NoDeleteQuery EXCEPT !.destination = Str("AKL"), !.cabin = Str("business"),
                         !.date_from = Str("2024-03-01")],
   [NoDeleteQuery EXCEPT !.program_id = Str("enrich"), !.origin = Str("KUL"),
                         !.date_to = Str("2024-03-05")],
   [NoDeleteQuery EXCEPT !.program_id = Str("enrich"), !.destination = Str(" AKL "),
                         !.date_to = Str("2024-03-01")]}

DeleteInputs ==
  {BaseDelete,
   [BaseDelete EXCEPT !.cabin = Str("business")],
   [BaseDelete EXCEPT !.dateFrom = Str("2024-03-02")],
   [BaseDelete EXCEPT !.programId = Str("  ")],
   [BaseDelete EXCEPT !.destination = Str("akl"), !.cabin = Str("economy")]}
    \cup {parseDeleteQuery(query) : query \in DeleteQueries}

BaseSearch ==
  [destination |-> Str("AKL"), origin |-> Str("KUL"), date |-> JSUndefined,
   dateFrom |-> JSUndefined, dateTo |-> JSUndefined, cabin |-> JSUndefined,
   tier |-> JSUndefined, programId |-> JSUndefined, availableOnly |-> JSUndefined,
   pointsMax |-> JSUndefined, pointsMin |-> JSUndefined, sort |-> JSUndefined,
   limit |-> JSUndefined, offset |-> JSUndefined]

\* one page of a page-by-page read: the offsets are the multiples of the limit
ConsecutivePageInputs ==
  {[BaseSearch EXCEPT !.sort = sort, !.limit = Num(limit), !.offset = Num(page * limit)] :
     sort \in {JSUndefined, Str("points")}, limit \in {1, 2}, page \in {0, 1, 2}}

SearchInputs ==
  {BaseSearch,
   [BaseSearch EXCEPT !.availableOnly = Bool(FALSE), !.sort = Str("points"),
                      !.limit = Num(1)],
   [BaseSearch EXCEPT !.date = Str("2024-03-01"), !.dateFrom = Str("2024-03-01")],
   [BaseSearch EXCEPT !.limit = JSNull]}

\* search filters, field by field
FilterInputs ==
  {[BaseSearch EXCEPT !.date = date, !.dateFrom = dateFrom, !.dateTo = dateTo,
                      !.cabin = cabin, !.pointsMax = pointsMax,
                      !.availableOnly = availableOnly, !.limit = limit] :
     date \in {JSUndefined, Str("2024-03-01"), Str(" 2024-03-05 ")},
     dateFrom \in {JSUndefined, Str("2024-03-02"), Str("  ")},
     dateTo \in {JSUndefined, Str("2024-03-05")},
     cabin \in {JSUndefined, Str("economy"), Str("lux")},
     pointsMax \in {JSUndefined, Num(50000)},
     availableOnly \in {JSUndefined, Bool(FALSE)},
     limit \in {JSUndefined, Num(1)}}

\* searches over cabin, availability, order and page
PageInputs ==
  {[BaseSearch EXCEPT !.origin = origin, !.cabin = cabin,
                      !.availableOnly = availableOnly,
                      !.sort = sort, !.limit = limit, !.offset = offset] :
     origin \in {JSUndefined, Str("KUL")},
     cabin \in {JSUndefined, Str("economy")},
     availableOnly \in {JSUndefined, Bool(TRUE), Bool(FALSE)},
     sort \in {JSUndefined, Str("date"), Str(" points ")},
     limit \in {JSUndefined, Num(1), Num(2)},
     offset \in {JSUndefined, Num(1), Num(3)}}

\* GET /flights?destination=AKL
BaseQuery ==
  [destination |-> Str("AKL"), origin |-> JSUndefined, date |-> JSUndefined,
   date_from |-> JSUndefined, date_to |-> JSUndefined, cabin |-> JSUndefined,
   tier |-> JSUndefined, program_id |-> JSUndefined, available_only |-> JSUndefined,
   points_max |-> JSUndefined, points_min |-> JSUndefined, sort |-> JSUndefined,
   limit |-> JSUndefined, offset |-> JSUndefined]

\* queries with one parameter that is present and out of range or malformed
MalformedQueries ==
  {[BaseQuery EXCEPT !.limit = Str(token)] :
     token \in {"0", "501", "-1", "1.5", "abc", "9007199254740993"}}
    \cup {[BaseQuery EXCEPT !.offset = Str(token)] : token \in {"-1", "0.5", "x"}}
    \cup {[BaseQuery EXCEPT !.points_min = Str(token)] : token \in {"0", "-5", "2.5", "low"}}
    \cup {[BaseQuery EXCEPT !.points_max = Str(token)] : token \in {"0", "1e5"}}
    \cup {[BaseQuery EXCEPT !.points_min = Str("50000"), !.points_max = Str("30000")]}
    \cup {[BaseQuery EXCEPT !.cabin = Str(token)] : token \in {"lux", "Economy"}}
    \cup {[BaseQuery EXCEPT !.sort = Str(token)] : token \in {"price", "POINTS"}}
    \cup {[BaseQuery EXCEPT !.available_only = Str(token)] : token \in {"yes", "1", "maybe"}}

\* queries whose parameters are absent, blank or well formed
WellFormedQueries ==
  {BaseQuery}
    \cup {[BaseQuery EXCEPT !.limit = Str(token)] : token \in {"1", "500", " 2 ", "  "}}
    \cup {[BaseQuery EXCEPT !.offset = Str(token)] : token \in {"0", "1", ""}}
    \cup {[BaseQuery EXCEPT !.points_min = Str("30000"), !.points_max = Str("50000")],
          [BaseQuery EXCEPT !.points_min = Str("45000"), !.points_max = Str("45000")]}
    \cup {[BaseQuery EXCEPT !.cabin = Str(token)] : token \in {"economy", " first ", " "}}
    \cup {[BaseQuery EXCEPT !.sort = Str(token)] : token \in {"points", "date", ""}}
    \cup {[BaseQuery EXCEPT !.available_only = Str(token)] : token \in {"TRUE", "false", " "}}

\* service inputs with numbers no query can produce
FractionInputs ==
  {[BaseSearch EXCEPT !.limit = Dec(1, 500)],
   [BaseSearch EXCEPT !.offset = Dec(0, 500)],
   [BaseSearch EXCEPT !.pointsMin = Dec(30000, 250)],
   [BaseSearch EXCEPT !.pointsMax = Dec(50000, 750)]}

QueryInputs ==
  {parseSearchQuery(query) : query \in MalformedQueries \cup WellFormedQueries}
    \cup FractionInputs

\* stats requests over destination, cabin, availability and first day
AggregateStatsInputs ==
  {[BaseSearch EXCEPT !.destination = destination, !.cabin = cabin,
                      !.availableOnly = availableOnly, !.dateFrom = dateFrom] :
     destination \in {Str("AKL"), Str("SYD")},
     cabin \in {JSUndefined, Str("business"), Str("first")},
     availableOnly \in {JSUndefined, Bool(TRUE), Bool(FALSE)},
     dateFrom \in {JSUndefined, Str("2024-03-02")}}

StatsInputs ==
  {[BaseSearch EXCEPT !.availableOnly = Bool(FALSE)],
   [BaseSearch EXCEPT !.dateFrom = Str("2024-03-01"), !.limit = Num(0)],
   [BaseSearch EXCEPT !.date = Str("2024-03-01"), !.dateTo = Str("2024-03-05")]}

BaseDestinations ==
  [origin |-> JSUndefined, dateFrom |-> JSUndefined, dateTo |-> JSUndefined,
   cabin |-> JSUndefined, availableOnly |-> JSUndefined]

DestinationsInputs ==
  {BaseDestinations,
   [BaseDestinations EXCEPT !.cabin = Str("premium")],
   [BaseDestinations EXCEPT !.dateFrom = Str("2024-03-02"), !.dateTo = Str("2024-03-01")]}

\* destination discovery over cabin, availability and first day
AggregateDestinationsInputs ==
  {[BaseDestinations EXCEPT !.cabin = cabin, !.availableOnly = availableOnly,
                            !.dateFrom = dateFrom] :
     cabin \in {JSUndefined, Str("economy"), Str("business"), Str("first")},
     availableOnly \in {JSUndefined, Bool(FALSE)},
     dateFrom \in {JSUndefined, Str("2024-03-02")}}

BaseCheapest ==
  [destination |-> Str("AKL"), origin |-> JSUndefined, dateFrom |-> JSUndefined,
   dateTo |-> JSUndefined, cabin |-> JSUndefined, programId |-> JSUndefined,
   availableOnly |-> Bool(FALSE)]

CheapestInputs ==
  {BaseCheapest,
   [BaseCheapest EXCEPT !.availableOnly = JSNull],
   [BaseCheapest EXCEPT !.destination = Str("")]}

\* cheapest-by-date requests over destination, cabin and availability
AggregateCheapestInputs ==
  {[BaseCheapest EXCEPT !.destination = destination, !.cabin = cabin,
                        !.availableOnly = availableOnly] :
     destination \in {Str("AKL"), Str("SYD")},
     cabin \in {JSUndefined, Str("business")},
     availableOnly \in {JSUndefined, Bool(FALSE)}}

\* date filters: real dates, dates no calendar has, and text that is no date
DateChoices == {JSUndefined, Str("2024-03-01"), Str("2024-02-30")}

DateFromChoices ==
  {JSUndefined, Str("2024-03-01"), Str("2024-03-05"), Str("2023-02-29"), Str("2024-3-1")}

DateToChoices == {JSUndefined, Str("2024-03-01"), Str("2024-02-29"), Str("2024-13-01")}

DatedSearchInputs ==
  {[BaseSearch EXCEPT !.date = date, !.dateFrom = dateFrom, !.dateTo = dateTo] :
     date \in DateChoices, dateFrom \in DateFromChoices, dateTo \in DateToChoices}

DatedDeleteInputs ==
  {[BaseDelete EXCEPT !.dateFrom = dateFrom, !.dateTo = dateTo] :
     dateFrom \in DateFromChoices, dateTo \in DateToChoices}

DatedDestinationsInputs ==
  {[BaseDestinations EXCEPT !.dateFrom = dateFrom, !.dateTo = dateTo] :
     dateFrom \in DateFromChoices, dateTo \in DateToChoices}

DatedCheapestInputs ==
  {[BaseCheapest EXCEPT !.dateFrom = dateFrom, !.dateTo = dateTo] :
     dateFrom \in DateFromChoices, dateTo \in DateToChoices}

\* an optional text filter after normalization: not set, or one of texts
OptionalText(texts) == {JSUndefined} \cup {Str(text) : text \in texts}

\* normalized search filters, as searchFlights and getFlightStats hand them
\* to buildWhereClause, and filter sets with date and a range at once
WhereFilters ==
  {[origin |-> "KUL", destination |-> "AKL", date |-> date, dateFrom |-> dateFrom,
    dateTo |-> dateTo, cabin |-> cabin, tier |-> tier, programId |-> programId,
    availableOnly |-> availableOnly, pointsMax |-> pointsMax, pointsMin |-> pointsMin,
    sort |-> "date", limit |-> DEFAULT_LIMIT, offset |-> 0] :
     date \in OptionalText({"2024-03-01"}),
     dateFrom \in OptionalText({"2024-02-28"}),
     dateTo \in OptionalText({"2024-03-05"}),
     cabin \in OptionalText({"business"}),
     tier \in OptionalText({"saver", "x' OR 'a'='a"}),
     programId \in OptionalText({"enrich"}),
     availableOnly \in BOOLEAN,
     pointsMax \in {JSUndefined, Num(50000)},
     pointsMin \in {JSUndefined, Num(30000)}}

\* normalized delete filters
DeleteWhereFilters ==
  {[programId |-> "enrich", destination |-> "AKL", origin |-> "KUL",
    dateFrom |-> dateFrom, dateTo |-> dateTo, cabin |-> cabin] :
     dateFrom \in OptionalText({"2024-02-28"}),
     dateTo \in OptionalText({"2024-03-05"}),
     cabin \in OptionalText({"business"})}

\* normalized destination discovery filters
DestinationsWhereFilters ==
  {[origin |-> "KUL", dateFrom |-> dateFrom, dateTo |-> dateTo, cabin |-> cabin,
    availableOnly |-> availableOnly] :
     dateFrom \in OptionalText({"2024-02-28"}),
     dateTo \in OptionalText({"2024-03-05"}),
     cabin \in OptionalText({"business"}),
     availableOnly \in BOOLEAN}

\* normalized cheapest-by-date filters
CheapestWhereFilters ==
  {[destination |-> "AKL", origin |-> "KUL", dateFrom |-> dateFrom, dateTo |-> dateTo,
    cabin |-> cabin, programId |-> programId, availableOnly |-> availableOnly] :
     dateFrom \in OptionalText({"2024-02-28"}),
     dateTo \in OptionalText({"2024-03-05"}),
     cabin \in OptionalText({"business"}),
     programId \in OptionalText({"enrich", "x' OR 'a'='a"}),
     availableOnly \in BOOLEAN}

---------------------------------------------------------------------------
(* Requests up to their first store call: validation, then the query text *)

upsertBegin(flights) ==
  Begin("upsert", flights, upsertValidate(flights), "upsert_batch", NoValue)

deleteBegin(filters) ==
  Begin("delete", filters, normalizeDeleteFilters(filters), "delete_run",
        deleteWhereClause(normalizeDeleteFilters(filters).value))

searchBegin(filters) ==
  Begin("search", filters, normalizeSearchFilters(filters), "search_rows",
        buildWhereClause(normalizeSearchFilters(filters).value))

statsBegin(filters) ==
  Begin("stats", filters, normalizeSearchFilters(filters), "stats_rows",
        buildWhereClause(normalizeSearchFilters(filters).value))

destinationsBegin(input) ==
  Begin("destinations", input, normalizeDestinationsInput(input), "destinations_rows",
        destinationsWhereClause(normalizeDestinationsInput(input).value))

cheapestBegin(input) ==
  Begin("cheapest", input, normalizeCheapestByDateInput(input), "cheapest_rows",
        cheapestWhereClause(normalizeCheapestByDateInput(input).value))

\* the same, worked out once for each input of the model
UpsertBegun ==
  [flights \in SmallBatches \cup BulkBatches \cup SeedBatches \cup AggregateSeeds
                \cup TiedSeeds \cup PostBatches |->
     upsertBegin(flights)]

DeleteBegun ==
  [filters \in DeleteInputs \cup DatedDeleteInputs |-> deleteBegin(filters)]

SearchBegun ==
  [filters \in SearchInputs \cup FilterInputs \cup PageInputs \cup QueryInputs
                \cup DatedSearchInputs \cup ConsecutivePageInputs |->
     searchBegin(filters)]

StatsBegun ==
  [filters \in StatsInputs \cup FilterInputs \cup QueryInputs
                \cup AggregateStatsInputs \cup DatedSearchInputs |->
     statsBegin(filters)]

DestinationsBegun ==
  [input \in DestinationsInputs \cup AggregateDestinationsInputs
              \cup DatedDestinationsInputs |->
     destinationsBegin(input)]

CheapestBegun ==
  [input \in CheapestInputs \cup AggregateCheapestInputs \cup DatedCheapestInputs |->
     cheapestBegin(input)]

Init ==
  /\ store = {}
  /\ nextId = 1
  /\ now = 0
  /\ started = 0
  /\ req = [c \in Clients |-> IdleRequest]

\* time passes at the store
Tick ==
  /\ NoneDone
  /\ now < MaxTime
  /\ now' = now + 1
  /\ UNCHANGED <<store, nextId, req, started>>

\* the response leaves; the client may send its next request
Return(c) ==
  /\ req[c].pc = "done"
  /\ req' = [req EXCEPT ![c] = IdleRequest]
  /\ UNCHANGED <<store, nextId, now, started>>

\* POST /flights reaches upsertFlights(flights)
UpsertStart(c, flights) ==
  /\ CanStart(c)
  /\ started' = started + 1
  /\ req' = [req EXCEPT ![c] = UpsertBegun[flights]]
  /\ UNCHANGED <<store, nextId, now>>

\* one turn of the chunk loop: db.batch(statements), awaited
UpsertBatch(c) ==
  /\ At(c, "upsert_batch")
  /\ LET statements == upsertStatements(req[c].normalized, req[c].k)
     IN \E up \in BOOLEAN :
          LET out == IF up THEN ExecBatch([rows |-> store, nextId |-> nextId], statements, now)
                     ELSE [ok |-> FALSE, rows |-> store, nextId |-> nextId]
          IN /\ out.nextId <= MaxId + 1
             /\ store' = out.rows
             /\ nextId' = out.nextId
             /\ req' = [req EXCEPT ![c] = upsertAfterBatch(@, statements, out.ok)]
  /\ UNCHANGED <<now, started>>

\* a store call that threw: the request fails with DatabaseError
FailCall(r, call, message) ==
  [r EXCEPT !.calls = Append(@, [call EXCEPT !.ok = FALSE]),
            !.pc = "done", !.result = databaseFailure(message)]

\* DELETE /flights reaches deleteFlights(filters)
DeleteStart(c, filters) ==
  /\ CanStart(c)
  /\ started' = started + 1
  /\ req' = [req EXCEPT ![c] = DeleteBegun[filters]]
  /\ UNCHANGED <<store, nextId, now>>

\* db.prepare(`DELETE FROM award_flights WHERE ...`).bind(...params).run()
DeleteRun(c) ==
  /\ At(c, "delete_run")
  /\ LET where == req[c].where
         call == [op |-> "run", where |-> where.sql, params |-> where.params, ok |-> TRUE]
         gone == SelectWhere(store, where.sql, where.params)
         run == [meta |-> [changes |-> Num(Cardinality(gone))]]
     IN \/ /\ store' = store \ gone
           /\ req' = [req EXCEPT ![c] =
                        [@ EXCEPT !.calls = Append(@, call), !.pc = "done",
                                  !.result = Ok([deleted |-> changesFromRun(run)])]]
        \/ /\ store' = store
           /\ req' = [req EXCEPT ![c] = FailCall(@, call, "Failed to delete flights")]
  /\ UNCHANGED <<nextId, now, started>>

\* GET /flights reaches searchFlights(filters)
SearchStart(c, filters) ==
  /\ CanStart(c)
  /\ started' = started + 1
  /\ req' = [req EXCEPT ![c] = SearchBegun[filters]]
  /\ UNCHANGED <<store, nextId, now>>

\* the first effect of Effect.all: the row fetch
SearchRows(c) ==
  /\ At(c, "search_rows")
  /\ LET q == searchRowsQuery(req[c].where, req[c].normalized)
         n == Len(q.params)
         call == [op |-> "all", where |-> q.where, params |-> q.params, ok |-> TRUE]
         matching == SelectWhere(store, q.where, q.params)
     IN \/ \E order \in SortedOrders(matching, q.orderBy) :
             req' = [req EXCEPT ![c] =
                       [@ EXCEPT !.calls = Append(@, call), !.pc = "search_count",
                                 !.fetched = LimitOffset(order, q.params[n - 1], q.params[n])]]
        \/ req' = [req EXCEPT ![c] = FailCall(@, call, "Failed to query award flights")]
  /\ UNCHANGED <<store, nextId, now, started>>

\* the second effect of Effect.all: the count
SearchCount(c) ==
  /\ At(c, "search_count")
  /\ LET q == searchCountQuery(req[c].where)
         call == [op |-> "first", where |-> q.where, params |-> q.params, ok |-> TRUE]
         total == Cardinality(SelectWhere(store, q.where, q.params))
     IN \/ req' = [req EXCEPT ![c] =
                     [@ EXCEPT !.calls = Append(@, call), !.pc = "done",
                               !.result = searchResult(req[c], total)]]
        \/ req' = [req EXCEPT ![c] = FailCall(@, call, "Failed to count award flights")]
  /\ UNCHANGED <<store, nextId, now, started>>

\* GET /flights/stats reaches getFlightStats(filters)
StatsStart(c, filters) ==
  /\ CanStart(c)
  /\ started' = started + 1
  /\ req' = [req EXCEPT ![c] = StatsBegun[filters]]
  /\ UNCHANGED <<store, nextId, now>>

\* the first effect of Effect.all: the grouped aggregate
StatsRows(c) ==
  /\ At(c, "stats_rows")
  /\ LET where == req[c].where
         call == [op |-> "all", where |-> where.sql, params |-> where.params, ok |-> TRUE]
         matching == SelectWhere(store, where.sql, where.params)
     IN \/ req' = [req EXCEPT ![c] =
                     [@ EXCEPT !.calls = Append(@, call), !.pc = "stats_summary",
                               !.fetched = statsGroupRows(matching)]]
        \/ req' = [req EXCEPT ![c] = FailCall(@, call, "Failed to query flight stats")]
  /\ UNCHANGED <<store, nextId, now, started>>

\* the second effect of Effect.all: the summary row
StatsSummary(c) ==
  /\ At(c, "stats_summary")
  /\ LET where == req[c].where
         call == [op |-> "first", where |-> where.sql, params |-> where.params, ok |-> TRUE]
         matching == SelectWhere(store, where.sql, where.params)
     IN \/ req' = [req EXCEPT ![c] =
                     [@ EXCEPT !.calls = Append(@, call), !.pc = "done",
                               !.result = statsResult(req[c], statsSummaryRow(matching))]]
        \/ req' = [req EXCEPT ![c] =
                     FailCall(@, call, "Failed to query flight stats summary")]
  /\ UNCHANGED <<store, nextId, now, started>>

\* getDestinations(input)
DestinationsStart(c, input) ==
  /\ CanStart(c)
  /\ started' = started + 1
  /\ req' = [req EXCEPT ![c] = DestinationsBegun[input]]
  /\ UNCHANGED <<store, nextId, now>>

DestinationsRows(c) ==
  /\ At(c, "destinations_rows")
  /\ LET where == req[c].where
         call == [op |-> "all", where |-> where.sql, params |-> where.params, ok |-> TRUE]
         matching == SelectWhere(store, where.sql, where.params)
     IN \/ req' = [req EXCEPT ![c] =
                     [@ EXCEPT !.calls = Append(@, call), !.pc = "done",
                               !.result = destinationsResult(matching)]]
        \/ req' = [req EXCEPT ![c] = FailCall(@, call, "Failed to query destinations")]
  /\ UNCHANGED <<store, nextId, now, started>>

\* getCheapestByDate(input)
CheapestStart(c, input) ==
  /\ CanStart(c)
  /\ started' = started + 1
  /\ req' = [req EXCEPT ![c] = CheapestBegun[input]]
  /\ UNCHANGED <<store, nextId, now>>

CheapestRows(c) ==
  /\ At(c, "cheapest_rows")
  /\ LET where == req[c].where
         call == [op |-> "all", where |-> where.sql, params |-> where.params, ok |-> TRUE]
         matching == SelectWhere(store, where.sql, where.params)
     IN \/ req' = [req EXCEPT ![c] =
                     [@ EXCEPT !.calls = Append(@, call), !.pc = "done",
                               !.result = cheapestResult(matching)]]
        \/ req' = [req EXCEPT ![c] = FailCall(@, call, "Failed to query cheapest by date")]
  /\ UNCHANGED <<store, nextId, now, started>>

Next ==
  \/ Tick
  \/ \E c \in Clients : Return(c)
  \/ \E c \in Clients : \E flights \in SmallBatches : UpsertStart(c, flights)
  \/ \E c \in Clients : UpsertBatch(c)
  \/ \E c \in Clients : \E filters \in DeleteInputs : DeleteStart(c, filters)
  \/ \E c \in Clients : DeleteRun(c)
  \/ \E c \in Clients : \E filters \in SearchInputs : SearchStart(c, filters)
  \/ \E c \in Clients : SearchRows(c)
  \/ \E c \in Clients : SearchCount(c)
  \/ \E c \in Clients : \E filters \in StatsInputs : StatsStart(c, filters)
  \/ \E c \in Clients : StatsRows(c)
  \/ \E c \in Clients : StatsSummary(c)
  \/ \E c \in Clients : \E input \in DestinationsInputs : DestinationsStart(c, input)
  \/ \E c \in Clients : DestinationsRows(c)
  \/ \E c \in Clients : \E input \in CheapestInputs : CheapestStart(c, input)
  \/ \E c \in Clients : CheapestRows(c)

Spec == Init /\ [][Next]_vars

---------------------------------------------------------------------------
(* One client sending long batches, one request after the other *)

Solo == "c1"

NextBulk ==
  \/ Tick
  \/ Return(Solo)
  \/ \E flights \in BulkBatches : started < MaxBulkRequests /\ UpsertStart(Solo, flights)
  \/ UpsertBatch(Solo)
  \/ \E filters \in DeleteInputs : started < MaxBulkRequests /\ DeleteStart(Solo, filters)
  \/ DeleteRun(Solo)

SpecBulk == Init /\ [][NextBulk]_vars

---------------------------------------------------------------------------
(* One client filling the table, then reading it under many filter sets *)

NextQuery ==
  \/ Return(Solo)
  \/ \E flights \in SeedBatches : UpsertStart(Solo, flights)
  \/ UpsertBatch(Solo)
  \/ \E filters \in FilterInputs \cup QueryInputs : SearchStart(Solo, filters)
  \/ SearchRows(Solo)
  \/ SearchCount(Solo)
  \/ \E filters \in FilterInputs \cup QueryInputs : StatsStart(Solo, filters)
  \/ StatsRows(Solo)
  \/ StatsSummary(Solo)

SpecQuery == Init /\ [][NextQuery]_vars

---------------------------------------------------------------------------
(* One client filling the table, then reading it page by page *)

NextRead ==
  \/ Return(Solo)
  \/ \E flights \in ReadSeeds : UpsertStart(Solo, flights)
  \/ UpsertBatch(Solo)
  \/ \E filters \in PageInputs : SearchStart(Solo, filters)
  \/ SearchRows(Solo)
  \/ SearchCount(Solo)

SpecRead == Init /\ [][NextRead]_vars

---------------------------------------------------------------------------
(* One client filling the table, then reading it through the aggregate views *)

NextAggregate ==
  \/ Return(Solo)
  \/ \E flights \in AggregateSeeds : UpsertStart(Solo, flights)
  \/ UpsertBatch(Solo)
  \/ \E filters \in AggregateStatsInputs : StatsStart(Solo, filters)
  \/ StatsRows(Solo)
  \/ StatsSummary(Solo)
  \/ \E input \in AggregateDestinationsInputs : DestinationsStart(Solo, input)
  \/ DestinationsRows(Solo)
  \/ \E input \in AggregateCheapestInputs : CheapestStart(Solo, input)
  \/ CheapestRows(Solo)

SpecAggregate == Init /\ [][NextAggregate]_vars

---------------------------------------------------------------------------
(* The builders of WHERE clauses, applied to normalized filter sets *)

\* a request that consists of building the WHERE clause of filters
Built(builder, filters, where) ==
  [IdleRequest EXCEPT !.pc = "done", !.op = builder, !.normalized = filters,
                      !.where = where]

BuildWhere(c, builder, filters, where) ==
  /\ CanStart(c)
  /\ started' = started + 1
  /\ req' = [req EXCEPT ![c] = Built(builder, filters, where)]
  /\ UNCHANGED <<store, nextId, now>>

NextWhere ==
  \/ Return(Solo)
  \/ \E filters \in WhereFilters :
       BuildWhere(Solo, "buildWhereClause", filters, buildWhereClause(filters))
  \/ \E filters \in DeleteWhereFilters :
       BuildWhere(Solo, "deleteWhereClause", filters, deleteWhereClause(filters))
  \/ \E filters \in DestinationsWhereFilters :
       BuildWhere(Solo, "destinationsWhereClause", filters,
                  destinationsWhereClause(filters))
  \/ \E filters \in CheapestWhereFilters :
       BuildWhere(Solo, "cheapestWhereClause", filters, cheapestWhereClause(filters))

SpecWhere == Init /\ [][NextWhere]_vars

---------------------------------------------------------------------------
(* One client sending requests with date filters to the five operations *)
(* that take them                                                        *)

NextDates ==
  \/ Return(Solo)
  \/ \E filters \in DatedSearchInputs : SearchStart(Solo, filters)
  \/ SearchRows(Solo)
  \/ SearchCount(Solo)
  \/ \E filters \in DatedSearchInputs : StatsStart(Solo, filters)
  \/ StatsRows(Solo)
  \/ StatsSummary(Solo)
  \/ \E filters \in DatedDeleteInputs : DeleteStart(Solo, filters)
  \/ DeleteRun(Solo)
  \/ \E input \in DatedDestinationsInputs : DestinationsStart(Solo, input)
  \/ DestinationsRows(Solo)
  \/ \E input \in DatedCheapestInputs : CheapestStart(Solo, input)
  \/ CheapestRows(Solo)

SpecDates == Init /\ [][NextDates]_vars

\* no request is in flight
Quiet == \A c \in Clients : req[c].pc = "idle"

\* no upsert is in flight
NoWrite == \A c \in Clients : req[c].op # "upsert"

\* page-by-page reads of a table that is written only while no read is in flight:
\* the pages read together see the same rows
NextPages ==
  \/ \E c \in Clients : Return(c)
  \/ \E flights \in TiedSeeds : Quiet /\ UpsertStart(Solo, flights)
  \/ UpsertBatch(Solo)
  \/ \E c \in Clients : \E filters \in ConsecutivePageInputs :
       NoWrite /\ SearchStart(c, filters)
  \/ \E c \in Clients : SearchRows(c)
  \/ \E c \in Clients : SearchCount(c)

SpecPages == Init /\ [][NextPages]_vars

---------------------------------------------------------------------------
(* One client posting request bodies *)

NextPost ==
  \/ Tick
  \/ Return(Solo)
  \/ \E flights \in PostBatches : UpsertStart(Solo, flights)
  \/ UpsertBatch(Solo)

SpecPost == Init /\ [][NextPost]_vars

---------------------------------------------------------------------------
(* Properties *)

\* request r ended in ValidationError
ValidationFailed(r) ==
  r.pc = "done" /\ ~r.result.ok /\ r.result.error.tag = "ValidationError"

\* the batches of the model in which some record does not pass
\* normalizeUpsertFlightInput
BatchesWithInvalidRecord ==
  {flights \in SmallBatches \cup BulkBatches \cup SeedBatches \cup ReadSeeds
                \cup PostBatches :
     HasFailure(flights)}

\* request r ended in DatabaseError
DatabaseFailed(r) ==
  r.pc = "done" /\ ~r.result.ok /\ r.result.error.tag = "DatabaseError"

\* upsert request r answered with a count
UpsertOk(r) == r.op = "upsert" /\ r.pc = "done" /\ r.result.ok

\* the compound key of a normalized record and of a row
FlightKey(flight) ==
  <<flight.programId, flight.origin, flight.destination, flight.flightNumber,
    flight.departureDate, flight.cabin, flight.tier>>

RowKey(row) ==
  <<row["program_id"], row["origin"], row["destination"], row["flight_number"],
    row["departure_date"], row["cabin"], row["tier"]>>

\* the mutable fields of a normalized record and of a row
FlightMutable(flight) ==
  <<flight.departureTime, flight.arrivalTime, flight.arrivalDayOffset,
    flight.durationMinutes, flight.routeType, flight.points,
    IF flight.available THEN 1 ELSE 0, flight.seatsLeft, flight.taxesMyr,
    flight.cashEquivalentMyr, flight.notes>>

RowMutable(row) ==
  <<row["departure_time"], row["arrival_time"], row["arrival_day_offset"],
    row["duration_minutes"], row["route_type"], row["points"], row["available"],
    row["seats_left"], row["taxes_myr"], row["cash_equivalent_myr"], row["notes"]>>

\* record j is the last of records[1..m] with its key
LastOfKey(records, m, j) ==
  \A i \in (j + 1)..m : FlightKey(records[i]) # FlightKey(records[j])

\* C1: a request of any of the six operations that ends in ValidationError
\* has issued no store call; an upsert whose batch holds an invalid record,
\* at whatever position, ends in ValidationError without any batched write.
C1_ValidationBeforeStorage ==
  \A c \in Clients :
    /\ ValidationFailed(req[c]) => req[c].calls = <<>>
    /\ (req[c].op = "upsert" /\ req[c].input \in BatchesWithInvalidRecord)
         => (ValidationFailed(req[c]) /\ req[c].calls = <<>>)

\* an upsert rejected for a record of its second chunk, while the table holds
\* rows written by other requests
C1_Witness ==
  \E c \in Clients :
    /\ req[c].op = "upsert"
    /\ req[c].input = BatchBadInSecondChunk
    /\ ValidationFailed(req[c])
    /\ req[c].result.error.message = "records[50].points must be a positive integer"
    /\ req[c].calls = <<>>
    /\ store # {}

\* a filter value that is set: a string that is not blank
FilterSet(value) == IsString(value) /\ Trim(value.v) # ""

\* C9: a search or stats request whose input sets date together with
\* date_from or date_to ends in ValidationError, whatever its other fields,
\* with no WHERE clause built and no store call issued.
C9_DateExcludesRange ==
  \A c \in Clients :
    (/\ req[c].op \in {"search", "stats"}
     /\ FilterSet(req[c].input.date)
     /\ FilterSet(req[c].input.dateFrom) \/ FilterSet(req[c].input.dateTo))
      => (/\ ValidationFailed(req[c])
          /\ req[c].normalized = NoValue
          /\ req[c].where = NoValue
          /\ req[c].calls = <<>>)

\* a stats request with a padded date, a blank date_from, a date_to and an
\* invalid cabin, rejected for the combination
C9_Witness ==
  \E c \in Clients :
    /\ req[c].op = "stats"
    /\ req[c].input.date = Str(" 2024-03-05 ")
    /\ req[c].input.dateFrom = Str("  ")
    /\ req[c].input.dateTo = Str("2024-03-05")
    /\ req[c].input.cabin = Str("lux")
    /\ ValidationFailed(req[c])
    /\ req[c].result.error.message = "date cannot be combined with date_from/date_to"

\* the parameters of the row fetch without those of LIMIT ? OFFSET ?
WithoutLimitOffset(params) == SubSeq(params, 1, Len(params) - 2)

\* the rows the row fetch of request r returns on the table, LIMIT/OFFSET lifted
FetchUnlimited(r) ==
  SelectWhere(store, r.calls[1].where, WithoutLimitOffset(r.calls[1].params))

\* the store calls of search or stats request r carry the WHERE clause and
\* the parameters built from its normalized filters
SharesWhere(r, built) ==
  \A i \in DOMAIN r.calls :
    /\ r.calls[i].where = built.sql
    /\ r.calls[i].params =
         (IF r.op = "search" /\ i = 1
          THEN built.params \o <<r.normalized.limit, r.normalized.offset>>
          ELSE built.params)

\* C10: when a search answers, meta.total is the number of rows its row
\* fetch returns on the same table without LIMIT/OFFSET; the row fetch, the
\* count, the grouped aggregate and the summary all carry the WHERE clause
\* and the parameter list built from the normalized filters.
C10_CountMatchesFetch ==
  \A c \in Clients :
    /\ (req[c].op = "search" /\ req[c].pc = "done" /\ req[c].result.ok)
         => req[c].result.value.meta.total = Cardinality(FetchUnlimited(req[c]))
    /\ (req[c].op \in {"search", "stats"} /\ req[c].calls # <<>>)
         => SharesWhere(req[c], buildWhereClause(req[c].normalized))

\* a search by date on a table of three rows: two rows match, one is returned
C10_Witness ==
  \E c \in Clients :
    /\ req[c].op = "search"
    /\ req[c].pc = "done"
    /\ req[c].result.ok
    /\ req[c].input.date = Str("2024-03-01")
    /\ req[c].input.limit = Num(1)
    /\ Cardinality(store) = 3
    /\ req[c].result.value.meta.total = 2
    /\ Len(req[c].result.value.data) = 1

\* C2: an upsert of 0 records or of more than 500 records ends in the
\* ValidationError of the batch size, also when its first record is invalid,
\* and issues no batched write.
C2_BatchSizeFirst ==
  \A c \in Clients :
    (req[c].op = "upsert" /\ (Len(req[c].input) = 0 \/ Len(req[c].input) > 500))
      => (/\ ValidationFailed(req[c])
          /\ req[c].result.error.message =
               (IF Len(req[c].input) = 0
                THEN "Request body must include at least one flight record"
                ELSE "Maximum 500 records allowed per request")
          /\ req[c].calls = <<>>)

\* 501 records, the first of them invalid: rejected for the batch size
C2_Witness ==
  \E c \in Clients :
    /\ req[c].op = "upsert"
    /\ Len(req[c].input) = 501
    /\ req[c].input[1] = FlightBadPoints
    /\ ValidationFailed(req[c])
    /\ req[c].result.error.message = "Maximum 500 records allowed per request"
    /\ req[c].calls = <<>>

\* C3: the batched writes of an upsert are issued in array order, each one
\* only after every earlier one returned successfully; once a write has
\* failed the request is over and no later chunk is submitted.
C3_ChunksInOrder ==
  \A c \in Clients :
    req[c].op = "upsert" =>
      /\ \A i \in DOMAIN req[c].calls :
           /\ i < Len(req[c].calls) => req[c].calls[i].ok
           /\ req[c].calls[i].statements[1]
                = BindFlight(req[c].normalized[(i - 1) * 50 + 1])
      /\ (req[c].calls # <<>> /\ ~req[c].calls[Len(req[c].calls)].ok)
           => req[c].pc = "done"
      /\ req[c].pc = "upsert_batch" => Len(req[c].calls) = req[c].k - 1

\* 500 records: the third write failed and the other seven chunks were
\* never submitted
C3_Witness ==
  \E c \in Clients :
    /\ req[c].op = "upsert"
    /\ Len(req[c].normalized) = 500
    /\ Len(req[c].calls) = 3
    /\ req[c].calls[1].ok /\ req[c].calls[2].ok /\ ~req[c].calls[3].ok
    /\ req[c].pc = "done"

\* the records 1..m of the batch are stored: each key holds the values of its
\* last record among them
StoredThrough(records, m) ==
  \A j \in 1..m :
    LastOfKey(records, m, j) =>
      \E row \in store :
        /\ RowKey(row) = FlightKey(records[j])
        /\ RowMutable(row) = FlightMutable(records[j])

\* C4: when the batched write of chunk k fails, the upsert ends with
\* DatabaseError and nothing else (no count), the records of chunks 1..k-1
\* are in the table, and no chunk has been submitted twice.
C4_FailedChunkEndsUpsert ==
  \A c \in Clients :
    req[c].op = "upsert" =>
      /\ \A i, j \in DOMAIN req[c].calls :
           i # j => req[c].calls[i].statements # req[c].calls[j].statements
      /\ (req[c].calls # <<>> /\ ~req[c].calls[Len(req[c].calls)].ok)
           => (/\ DatabaseFailed(req[c])
               /\ req[c].result =
                    [ok |-> FALSE,
                     error |-> [tag |-> "DatabaseError",
                                message |-> "Failed to upsert award flights"]]
               /\ StoredThrough(req[c].normalized, (Len(req[c].calls) - 1) * 50))

\* 100 records with an unknown program in the second chunk: the write of
\* chunk 2 fails and the table holds records 49 and 50
C4_Witness ==
  \E c \in Clients :
    /\ req[c].op = "upsert"
    /\ Len(req[c].input) = 100
    /\ req[c].input[75] = FlightGhost
    /\ Len(req[c].calls) = 2
    /\ req[c].calls[1].ok
    /\ DatabaseFailed(req[c])
    /\ \E row \in store : row["points"] = 40049
    /\ \E row \in store : row["points"] = 40050

\* the statements of the batched writes, in submission order
RECURSIVE SubmittedStatements(_)
SubmittedStatements(calls) ==
  IF Len(calls) = 0 THEN <<>>
  ELSE SubmittedStatements(SubSeq(calls, 1, Len(calls) - 1))
         \o calls[Len(calls)].statements

\* statements binds the first records of the list, in order
BindsPrefix(statements, records) ==
  /\ Len(statements) <= Len(records)
  /\ \A j \in DOMAIN statements : statements[j] = BindFlight(records[j])

\* C5: every batched write carries 1 to 50 statements, and exactly 50 unless
\* it is the last chunk; the writes submitted so far, concatenated, bind the
\* validated records in order; a successful upsert of n records has made
\* ceil(n/50) writes that bind all n records.
C5_ChunkSlices ==
  \A c \in Clients :
    req[c].op = "upsert" =>
      /\ \A i \in DOMAIN req[c].calls :
           /\ Len(req[c].calls[i].statements) >= 1
           /\ Len(req[c].calls[i].statements) <= 50
           /\ i * 50 < Len(req[c].normalized)
                => Len(req[c].calls[i].statements) = 50
      /\ BindsPrefix(SubmittedStatements(req[c].calls), req[c].normalized)
      /\ UpsertOk(req[c])
           => /\ Len(req[c].calls) = (Len(req[c].input) + 49) \div 50
              /\ Len(SubmittedStatements(req[c].calls)) = Len(req[c].input)

\* 51 records written by a chunk of 50 and a chunk of 1
C5_Witness ==
  \E c \in Clients :
    /\ UpsertOk(req[c])
    /\ Len(req[c].input) = 51
    /\ Len(req[c].calls) = 2
    /\ Len(req[c].calls[1].statements) = 50
    /\ Len(req[c].calls[2].statements) = 1

\* C6: no two rows of the table share the compound key (program id, origin,
\* destination, flight number, departure date, cabin, tier), whatever upserts
\* and deletes ran and however they interleaved; when an upsert answers, each
\* record of the chunk it wrote last has exactly one row.
C6_OneRowPerKey ==
  /\ \A r1, r2 \in store : RowKey(r1) = RowKey(r2) => r1 = r2
  /\ \A c \in Clients :
       UpsertOk(req[c]) =>
         \A j \in DOMAIN req[c].normalized :
           j > (Len(req[c].calls) - 1) * 50 =>
             Cardinality({row \in store : RowKey(row) = FlightKey(req[c].normalized[j])}) = 1

\* the same record upserted a second time, later: still one row
C6_Witness ==
  \E c \in Clients :
    /\ UpsertOk(req[c])
    /\ req[c].input = <<FlightA>>
    /\ Cardinality(store) = 1
    /\ \E row \in store :
         /\ row["created_at"] = 0
         /\ row["updated_at"] = 1
         /\ row["points"] = 45000

\* request c has just had a batched write succeed
UpsertWrote(c) ==
  /\ req[c].pc = "upsert_batch"
  /\ Len(req'[c].calls) = Len(req[c].calls) + 1
  /\ req'[c].calls[Len(req'[c].calls)].ok

\* the records of the chunk request c writes next
NextChunk(c) ==
  SubSeq(req[c].normalized, (req[c].k - 1) * 50 + 1,
         IF req[c].k * 50 < Len(req[c].normalized) THEN req[c].k * 50
         ELSE Len(req[c].normalized))

\* row old, whose key is among records, is overwritten by the last record
\* with that key and is otherwise the row it was
Overwritten(old, records) ==
  \A j \in DOMAIN records :
    (FlightKey(records[j]) = RowKey(old) /\ LastOfKey(records, Len(records), j))
      => \E new \in store' :
           /\ RowKey(new) = RowKey(old)
           /\ new["id"] = old["id"]
           /\ new["created_at"] = old["created_at"]
           /\ new["updated_at"] = now
           /\ RowMutable(new) = FlightMutable(records[j])

\* C7: a batched write that succeeds leaves every row whose key it submits
\* with the submitted departure time, arrival time, arrival day offset,
\* duration, route type, points, available, seats left, taxes, cash
\* equivalent and notes and with updated_at at the current time, while the
\* row keeps its id, its created_at and its seven key fields.
C7_ConflictOverwrites ==
  [][\A c \in Clients :
       UpsertWrote(c) => \A old \in store : Overwritten(old, NextChunk(c))]_vars

\* the row inserted at time 0 by FlightA, overwritten at time 1 by FlightA2
C7_Witness ==
  \E row \in store :
    /\ row["created_at"] = 0
    /\ row["updated_at"] = 1
    /\ row["points"] = 40000
    /\ row["available"] = 0
    /\ row["departure_time"] = "10:00"
    /\ row["flight_number"] = "MH131"

\* C8: an upsert that succeeds answers upserted = n, the number of records
\* submitted (1 to 500), whether they inserted rows or updated them.
C8_UpsertedIsBatchSize ==
  \A c \in Clients :
    UpsertOk(req[c]) =>
      /\ req[c].result.value = [upserted |-> Len(req[c].input)]
      /\ Len(req[c].input) >= 1
      /\ Len(req[c].input) <= 500

\* 500 records on two keys: two rows, upserted = 500
C8_Witness ==
  \E c \in Clients :
    /\ UpsertOk(req[c])
    /\ Len(req[c].input) = 500
    /\ req[c].result.value.upserted = 500
    /\ Cardinality(store) = 2

\* search request r answered with rows
SearchOk(r) == r.op = "search" /\ r.pc = "done" /\ r.result.ok

\* the value a filter field stands for: trimmed, or the default when not set
FilterValue(value, default) == IF FilterSet(value) THEN Trim(value.v) ELSE default

\* row satisfies the search filters of input
MatchesFilters(row, input) ==
  /\ row["origin"] = FilterValue(input.origin, "KUL")
  /\ row["destination"] = FilterValue(input.destination, "")
  /\ FilterSet(input.date) => row["departure_date"] = Trim(input.date.v)
  /\ FilterSet(input.dateFrom) => StrLeq(Trim(input.dateFrom.v), row["departure_date"])
  /\ FilterSet(input.dateTo) => StrLeq(row["departure_date"], Trim(input.dateTo.v))
  /\ FilterSet(input.cabin) => row["cabin"] = Trim(input.cabin.v)
  /\ FilterSet(input.tier) => row["tier"] = Trim(input.tier.v)
  /\ FilterSet(input.programId) => row["program_id"] = Trim(input.programId.v)
  /\ input.availableOnly # Bool(FALSE) => row["available"] = 1
  /\ IsNumber(input.pointsMax) => row["points"] <= input.pointsMax.v
  /\ IsNumber(input.pointsMin) => row["points"] >= input.pointsMin.v

Matching(input) == {row \in store : MatchesFilters(row, input)}

\* a comes strictly before b in the order asked for by sort
ComesBefore(a, b, sort) ==
  IF sort = "points"
  THEN \/ a["points"] < b["points"]
       \/ /\ a["points"] = b["points"]
          /\ \/ StrLess(a["departure_date"], b["departure_date"])
             \/ /\ a["departure_date"] = b["departure_date"]
                /\ StrLess(a["departure_time"], b["departure_time"])
  ELSE \/ StrLess(a["departure_date"], b["departure_date"])
       \/ /\ a["departure_date"] = b["departure_date"]
          /\ \/ StrLess(a["departure_time"], b["departure_time"])
             \/ /\ a["departure_time"] = b["departure_time"]
                /\ a["points"] < b["points"]

\* data holds the rows at positions offset+1 .. offset+limit of rows in that
\* order
IsPage(data, rows, sort, limit, offset) ==
  /\ Len(data) <= limit
  /\ Len(data) = (IF Cardinality(rows) <= offset THEN 0
                  ELSE IF Cardinality(rows) - offset < limit
                  THEN Cardinality(rows) - offset ELSE limit)
  /\ \A i \in DOMAIN data :
       /\ \E row \in rows : toAwardFlightRow(row) = data[i]
       /\ Cardinality({row \in rows : ComesBefore(row, data[i], sort)}) <= offset + i - 1
       /\ Cardinality({row \in rows : ~ComesBefore(data[i], row, sort)}) >= offset + i
  /\ \A i, j \in DOMAIN data : i # j => data[i].id # data[j].id

\* C11: a search that succeeds returns as data the rows matching its
\* filters at positions [offset, offset + limit) of the order by (points,
\* departure date, departure time) for sort = points and by (departure date,
\* departure time, points) otherwise, never more than limit rows; meta holds
\* the normalized limit and offset, and total counts all the matching rows.
C11_SearchPage ==
  \A c \in Clients :
    SearchOk(req[c]) =>
      /\ IsPage(req[c].result.value.data, Matching(req[c].input),
                FilterValue(req[c].input.sort, "date"),
                IF IsNumber(req[c].input.limit) THEN req[c].input.limit.v ELSE 200,
                IF IsNumber(req[c].input.offset) THEN req[c].input.offset.v ELSE 0)
      /\ req[c].result.value.meta =
           [total |-> Cardinality(Matching(req[c].input)),
            limit |-> IF IsNumber(req[c].input.limit) THEN req[c].input.limit.v ELSE 200,
            offset |-> IF IsNumber(req[c].input.offset) THEN req[c].input.offset.v ELSE 0]

\* three economy rows with points 45000, 30000, 60000 under sort = points and
\* limit = 2: the rows with 30000 and 45000, total 3
C11_Witness ==
  \E c \in Clients :
    /\ SearchOk(req[c])
    /\ req[c].input.cabin = Str("economy")
    /\ req[c].input.sort = Str(" points ")
    /\ req[c].input.limit = Num(2)
    /\ {row["points"] : row \in Matching(req[c].input)} = {45000, 30000, 60000}
    /\ Len(req[c].result.value.data) = 2
    /\ req[c].result.value.data[1].points = 30000
    /\ req[c].result.value.data[2].points = 45000
    /\ req[c].result.value.meta.total = 3

\* three capital letters
IsAirportCode(code) ==
  /\ Len(code) = 3
  /\ \A i \in 1..3 :
       \E j \in 1..26 : CharAt(code, i) = CharAt("ABCDEFGHIJKLMNOPQRSTUVWXYZ", j)

\* a delete input without a program id or without a valid destination
DeleteUnscoped(input) ==
  \/ Trim(input.programId.v) = ""
  \/ ~IsAirportCode(Trim(input.destination.v))

\* the store call deletes under a program-id and a destination predicate
DeleteCallScoped(call) ==
  /\ SubSeq(call.where, 1, Len("WHERE program_id = ? AND destination = ?"))
       = "WHERE program_id = ? AND destination = ?"
  /\ Trim(call.params[1]) # ""
  /\ IsAirportCode(call.params[2])

\* C12: a delete whose program id is empty or blank, or whose destination is
\* not a valid IATA code, ends in ValidationError without a store call,
\* whichever of date_from, date_to, cabin and origin it supplies; every DELETE
\* that reaches the store carries a program-id and a destination predicate.
C12_DeleteNeedsScope ==
  \A c \in Clients :
    req[c].op = "delete" =>
      /\ DeleteUnscoped(req[c].input)
           => (ValidationFailed(req[c]) /\ req[c].calls = <<>>)
      /\ \A i \in DOMAIN req[c].calls : DeleteCallScoped(req[c].calls[i])

\* a delete with a blank program id, rejected while the table holds rows
C12_Witness ==
  \E c \in Clients :
    /\ req[c].op = "delete"
    /\ req[c].input.programId = Str("  ")
    /\ ValidationFailed(req[c])
    /\ req[c].result.error.message = "program_id is required"
    /\ req[c].calls = <<>>
    /\ store # {}

\* row satisfies the delete filters of input
MatchesDelete(row, input) ==
  /\ row["program_id"] = Trim(input.programId.v)
  /\ row["destination"] = Trim(input.destination.v)
  /\ row["origin"] = FilterValue(input.origin, "KUL")
  /\ FilterSet(input.dateFrom) => StrLeq(Trim(input.dateFrom.v), row["departure_date"])
  /\ FilterSet(input.dateTo) => StrLeq(row["departure_date"], Trim(input.dateTo.v))
  /\ FilterSet(input.cabin) => row["cabin"] = Trim(input.cabin.v)

\* the DELETE of request c has just run and succeeded
DeleteRan(c) ==
  req[c].pc = "delete_run" /\ req'[c].pc = "done" /\ req'[c].result.ok

\* C13: a delete that succeeds removes exactly the rows whose program id,
\* destination and origin equal the filter values and that satisfy each
\* supplied optional filter (date_from, date_to, cabin), leaves every other
\* row as it was, and answers deleted = the number of rows removed.
C13_DeleteExactly ==
  [][\A c \in Clients :
       DeleteRan(c) =>
         /\ store' = {row \in store : ~MatchesDelete(row, req[c].input)}
         /\ req'[c].result.value =
              [deleted |-> Cardinality({row \in store : MatchesDelete(row, req[c].input)})]]_vars

\* a delete with cabin = business removed one row and left the economy row
C13_Witness ==
  \E c \in Clients :
    /\ req[c].op = "delete"
    /\ req[c].pc = "done"
    /\ req[c].input.cabin = Str("business")
    /\ req[c].result = Ok([deleted |-> 1])
    /\ \E row \in store : row["cabin"] = "economy" /\ row["destination"] = "AKL"
    /\ ~\E row \in store : row["cabin"] = "business"

\* value is a whole number of at least least
IsWholeFrom(value, least) == IsNumber(value) /\ value.frac = 0 /\ value.v >= least

\* a search input with a value that is present and out of range or malformed
Malformed(input) ==
  \/ input.limit # JSUndefined /\ ~(IsWholeFrom(input.limit, 1) /\ input.limit.v <= 500)
  \/ input.offset # JSUndefined /\ ~IsWholeFrom(input.offset, 0)
  \/ input.pointsMin # JSUndefined /\ ~IsWholeFrom(input.pointsMin, 1)
  \/ input.pointsMax # JSUndefined /\ ~IsWholeFrom(input.pointsMax, 1)
  \/ /\ IsNumber(input.pointsMin) /\ IsNumber(input.pointsMax)
     /\ input.pointsMin.v > input.pointsMax.v
  \/ FilterSet(input.cabin) /\ Trim(input.cabin.v) \notin {"economy", "business", "first"}
  \/ FilterSet(input.sort) /\ Trim(input.sort.v) \notin {"date", "points"}
  \/ input.availableOnly = JSNull

\* what the malformed and the well-formed queries reach the service as
MalformedQueryInputs == {parseSearchQuery(query) : query \in MalformedQueries}

WellFormedQueryInputs == {parseSearchQuery(query) : query \in WellFormedQueries}

\* the values of input that are present are the values of normalized
KeepsPresent(input, normalized) ==
  /\ input.limit # JSUndefined => normalized.limit = input.limit.v
  /\ input.offset # JSUndefined => normalized.offset = input.offset.v
  /\ input.pointsMin # JSUndefined => normalized.pointsMin = input.pointsMin
  /\ input.pointsMax # JSUndefined => normalized.pointsMax = input.pointsMax
  /\ FilterSet(input.cabin) => normalized.cabin = Str(Trim(input.cabin.v))
  /\ FilterSet(input.sort) => normalized.sort = Trim(input.sort.v)
  /\ input.availableOnly # JSUndefined => normalized.availableOnly = input.availableOnly.v

\* C14: a search whose limit, offset, points_min, points_max, cabin, sort or
\* available_only is present but out of range or malformed ends in
\* ValidationError without a store call; a search that passes normalization
\* carries every present value unchanged, so a default stands only for an
\* absent value.
C14_MalformedRejected ==
  \A c \in Clients :
    req[c].op = "search" =>
      /\ (Malformed(req[c].input) \/ req[c].input \in MalformedQueryInputs)
           => (ValidationFailed(req[c]) /\ req[c].calls = <<>>)
      /\ req[c].input \in MalformedQueryInputs => Malformed(req[c].input)
      /\ req[c].input \in WellFormedQueryInputs => ~ValidationFailed(req[c])
      /\ req[c].normalized # NoValue => KeepsPresent(req[c].input, req[c].normalized)

\* GET /flights?destination=AKL&limit=0 rejected while the table holds rows
C14_Witness ==
  \E c \in Clients :
    /\ req[c].op = "search"
    /\ req[c].input = parseSearchQuery([BaseQuery EXCEPT !.limit = Str("0")])
    /\ req[c].input.limit = Num(0)
    /\ ValidationFailed(req[c])
    /\ req[c].result.error.message = "limit must be an integer between 1 and 500"
    /\ req[c].calls = <<>>
    /\ store # {}

\* the rows matching the filters of input other than availability
MatchingAnyAvailability(input) ==
  {row \in store : MatchesFilters(row, [input EXCEPT !.availableOnly = Bool(FALSE)])}

\* the defaults of the search filters
DefaultsApplied(input, normalized) ==
  /\ ~FilterSet(input.origin) => normalized.origin = "KUL"
  /\ input.availableOnly = JSUndefined => normalized.availableOnly = TRUE
  /\ ~FilterSet(input.sort) => normalized.sort = "date"
  /\ input.limit = JSUndefined => normalized.limit = 200
  /\ input.offset = JSUndefined => normalized.offset = 0

\* the search returned the available rows only
OnlyAvailable(input, result) ==
  /\ \A i \in DOMAIN result.data : result.data[i].available = TRUE
  /\ result.meta.total =
       Cardinality({row \in MatchingAnyAvailability(input) : row["available"] = 1})

\* the search returned available and unavailable rows alike
AnyAvailability(input, result) ==
  /\ result.meta.total = Cardinality(MatchingAnyAvailability(input))
  /\ (input.limit = JSUndefined /\ input.offset = JSUndefined)
       => {result.data[i].id : i \in DOMAIN result.data}
            = {row["id"] : row \in MatchingAnyAvailability(input)}

\* C15: absent from the search input, origin normalizes to KUL,
\* available-only to true, sort to date, limit to 200 and offset to 0; a
\* search with available-only absent returns only rows whose available flag
\* is set, and a search with available-only false returns the available and
\* the unavailable rows alike.
C15_SearchDefaults ==
  \A c \in Clients :
    req[c].op = "search" =>
      /\ req[c].normalized # NoValue => DefaultsApplied(req[c].input, req[c].normalized)
      /\ (SearchOk(req[c]) /\ req[c].input.availableOnly = JSUndefined)
           => OnlyAvailable(req[c].input, req[c].result.value)
      /\ (SearchOk(req[c]) /\ req[c].input.availableOnly = Bool(FALSE))
           => AnyAvailability(req[c].input, req[c].result.value)

\* a search that names the destination only, over three available rows and
\* one that is not: origin KUL, sort date, limit 200, offset 0, three rows
C15_Witness ==
  \E c \in Clients :
    /\ SearchOk(req[c])
    /\ req[c].input = [BaseSearch EXCEPT !.origin = JSUndefined]
    /\ req[c].normalized.origin = "KUL"
    /\ req[c].normalized.availableOnly = TRUE
    /\ req[c].normalized.sort = "date"
    /\ req[c].result.value.meta = [total |-> 3, limit |-> 200, offset |-> 0]
    /\ Len(req[c].result.value.data) = 3
    /\ \E row \in store : row["destination"] = "AKL" /\ row["available"] = 0

\* the stats input without its sort, limit and offset
WithoutPaging(input) ==
  [input EXCEPT !.sort = JSUndefined, !.limit = JSUndefined, !.offset = JSUndefined]

\* what getFlightStats answers on the table for a request begun as begun,
\* when no store call fails
StatsAnswerOf(begun, rows) ==
  IF begun.pc = "done" THEN begun.result
  ELSE statsResult([begun EXCEPT !.fetched = statsGroupRows(rows)], statsSummaryRow(rows))

StatsAnswer(begun) ==
  StatsAnswerOf(begun,
                IF begun.pc = "done" THEN {}
                ELSE SelectWhere(store, begun.where.sql, begun.where.params))

\* C16: a stats request is accepted or rejected, and answered, as the same
\* request without its sort, limit and offset would be.
C16_StatsIgnorePaging ==
  \A c \in Clients :
    (req[c].op = "stats" /\ req[c].pc = "done" /\ ~DatabaseFailed(req[c]))
      => req[c].result = StatsAnswer(statsBegin(WithoutPaging(req[c].input)))

\* what the bodies with a malformed property reach upsertFlights as
MalformedBodyInputs == {flightInputs(body) : body \in MalformedBodies}

\* C17: a POST /flights whose body holds a property that is present but
\* malformed ends in ValidationError: the value is not replaced by a default
\* or by null.
C17_MalformedBodyRejected ==
  \A c \in Clients :
    (req[c].op = "upsert" /\ req[c].input \in MalformedBodyInputs)
      => ValidationFailed(req[c])

\* the fields of a record in the order normalizeUpsertFlightInput takes them
FieldOrder ==
  <<"program_id", "origin", "destination", "flight_number", "departure_date",
    "departure_time", "arrival_time", "arrival_day_offset", "duration_minutes",
    "route_type", "cabin", "tier", "points", "available", "seats_left", "taxes_myr",
    "cash_equivalent_myr">>

\* the rule of each field of a flight record
ValidField(flight, field) ==
  CASE field = "program_id" -> Trim(flight.programId.v) # ""
    [] field = "origin" ->
         FilterSet(flight.origin) => IsAirportCode(Trim(flight.origin.v))
    [] field = "destination" ->
         FilterSet(flight.destination) /\ IsAirportCode(Trim(flight.destination.v))
    [] field = "flight_number" -> Trim(flight.flightNumber.v) # ""
    [] field = "departure_date" -> isIsoDate(Trim(flight.departureDate.v))
    [] field = "departure_time" -> isTime(Trim(flight.departureTime.v))
    [] field = "arrival_time" -> isTime(Trim(flight.arrivalTime.v))
    [] field = "arrival_day_offset" ->
         \/ IsNullish(flight.arrivalDayOffset)
         \/ IsWholeFrom(flight.arrivalDayOffset, 0) /\ flight.arrivalDayOffset.v <= 2
    [] field = "duration_minutes" -> IsWholeFrom(flight.durationMinutes, 1)
    [] field = "route_type" -> Trim(flight.routeType.v) \in {"direct", "1-stop", "2-stop"}
    [] field = "cabin" -> Trim(flight.cabin.v) \in {"economy", "business", "first"}
    [] field = "tier" -> Trim(flight.tier.v) # ""
    [] field = "points" -> IsWholeFrom(flight.points, 1)
    [] field = "available" -> flight.available.t \in {"undefined", "boolean"}
    [] field = "seats_left" ->
         IsNullish(flight.seatsLeft) \/ IsWholeFrom(flight.seatsLeft, 0)
    [] field = "taxes_myr" -> IsNumber(flight.taxesMyr) /\ flight.taxesMyr.v >= 0
    [] field = "cash_equivalent_myr" ->
         \/ IsNullish(flight.cashEquivalentMyr)
         \/ IsNumber(flight.cashEquivalentMyr) /\ flight.cashEquivalentMyr.v >= 0

ValidRecord(flight) == \A k \in DOMAIN FieldOrder : ValidField(flight, FieldOrder[k])

\* the first field of an invalid record that breaks its rule
FirstInvalidField(flight) ==
  FieldOrder[CHOOSE k \in DOMAIN FieldOrder :
               /\ ~ValidField(flight, FieldOrder[k])
               /\ \A j \in 1..(k - 1) : ValidField(flight, FieldOrder[j])]

\* the position of the first invalid record of a batch
FirstInvalidRecord(flights) ==
  CHOOSE i \in DOMAIN flights :
    /\ ~ValidRecord(flights[i])
    /\ \A j \in 1..(i - 1) : ValidRecord(flights[j])

\* records[i].<field> for the record at position i of the batch, counted from 0
ReportedAs(flights, i) ==
  "records[" \o ToString(i - 1) \o "]." \o FirstInvalidField(flights[i]) \o " "

StartsWith(text, prefix) ==
  Len(text) >= Len(prefix) /\ SubSeq(text, 1, Len(prefix)) = prefix

\* C18: an upsert of 1 to 500 records of which some are invalid ends in a
\* ValidationError whose message starts with records[i].<field>, i the
\* zero-based position of the first invalid record of the batch and <field>
\* the first field of that record, in validation order, that breaks its rule.
C18_FirstInvalidReported ==
  \A c \in Clients :
    (/\ req[c].op = "upsert"
     /\ Len(req[c].input) >= 1
     /\ Len(req[c].input) <= 500
     /\ \E i \in DOMAIN req[c].input : ~ValidRecord(req[c].input[i]))
      => /\ ValidationFailed(req[c])
         /\ StartsWith(req[c].result.error.message,
                       ReportedAs(req[c].input, FirstInvalidRecord(req[c].input)))

\* a valid record, then one invalid in cabin and points, then one invalid in
\* tier: the cabin of the second record is reported
C18_Witness ==
  \E c \in Clients :
    /\ req[c].op = "upsert"
    /\ req[c].input =
         flightInputs([t |-> "array",
                       items |-> <<GoodPayload, PayloadTwoWrong, PayloadNoTier>>])
    /\ ValidationFailed(req[c])
    /\ req[c].result.error.message
         = "records[1].cabin must be one of: economy, business, first"

StatsOk(r) == r.op = "stats" /\ r.pc = "done" /\ r.result.ok

\* the rows of a (cabin, tier) group
GroupOf(rows, cabin, tier) == {r \in rows : r["cabin"] = cabin /\ r["tier"] = tier}

\* the average of the points of rows in hundredths, halves rounded up
AverageInCents(rows) ==
  (200 * SumOf(rows, "points") + Cardinality(rows)) \div (2 * Cardinality(rows))

\* minimum, maximum, average to 2 decimals, and number of available rows
GroupStats(rows) ==
  [min_points |-> CHOOSE p \in {r["points"] : r \in rows} :
                    \A r \in rows : p <= r["points"],
   max_points |-> CHOOSE p \in {r["points"] : r \in rows} :
                    \A r \in rows : p >= r["points"],
   avg_points |-> Dec(AverageInCents(rows) \div 100, (AverageInCents(rows) % 100) * 10),
   available_count |-> Cardinality({r \in rows : r["available"] = 1})]

\* value reports the statistics of every (cabin, tier) group of rows
ReportsGroups(value, rows) ==
  \A row \in rows :
    /\ value[row["cabin"]] # JSNull
    /\ row["tier"] \in DOMAIN value[row["cabin"]]
    /\ value[row["cabin"]][row["tier"]]
         = GroupStats(GroupOf(rows, row["cabin"], row["tier"]))

\* C19 as stated: a stats request that supplies no availability filter
\* reports every (cabin, tier) group among the rows of the requested route,
\* available or not, with the minimum, maximum and rounded average of its
\* points and the number of its available rows.
C19_StatsOverRoute ==
  \A c \in Clients :
    (StatsOk(req[c]) /\ req[c].input.availableOnly = JSUndefined)
      => ReportsGroups(req[c].result.value, MatchingAnyAvailability(req[c].input))

\* C19, amended: a stats request reports every (cabin, tier) group among
\* the rows that match its filters, which leave out the unavailable rows
\* unless available_only is false, with the minimum, maximum and average
\* (rounded to 2 decimals) of its points and the number of its available rows.
C19_StatsPerGroup ==
  \A c \in Clients :
    StatsOk(req[c]) => ReportsGroups(req[c].result.value, Matching(req[c].input))

\* stats with available_only=false over the two economy/saver rows to SYD,
\* 30000 available and 50000 not
C19_Witness ==
  \E c \in Clients :
    /\ StatsOk(req[c])
    /\ req[c].input.destination = Str("SYD")
    /\ req[c].input.availableOnly = Bool(FALSE)
    /\ req[c].input.dateFrom = JSUndefined
    /\ Cardinality({row \in store : row["destination"] = "SYD"}) = 2
    /\ req[c].result.value.economy.saver
         = [min_points |-> 30000, max_points |-> 50000, avg_points |-> Dec(40000, 0),
            available_count |-> 1]

\* stats without an availability filter over the same two rows: the
\* unavailable row is left out
C19_DefaultWitness ==
  \E c \in Clients :
    /\ StatsOk(req[c])
    /\ req[c].input.destination = Str("SYD")
    /\ req[c].input.availableOnly = JSUndefined
    /\ req[c].input.cabin = JSUndefined
    /\ Cardinality({row \in store : row["destination"] = "SYD"}) = 2
    /\ req[c].result.value.economy.saver
         = [min_points |-> 30000, max_points |-> 30000, avg_points |-> Dec(30000, 0),
            available_count |-> 1]

\* stats over three rows whose average has a repeating fraction
C19_FractionWitness ==
  \E c \in Clients :
    /\ StatsOk(req[c])
    /\ req[c].result.value.economy # JSNull
    /\ req[c].result.value.economy.saver.avg_points = Dec(43333, 670)

\* row satisfies the filters of a destination discovery request
MatchesDestinations(row, input) ==
  /\ row["origin"] = FilterValue(input.origin, "KUL")
  /\ FilterSet(input.dateFrom) => StrLeq(Trim(input.dateFrom.v), row["departure_date"])
  /\ FilterSet(input.dateTo) => StrLeq(row["departure_date"], Trim(input.dateTo.v))
  /\ FilterSet(input.cabin) => row["cabin"] = Trim(input.cabin.v)
  /\ input.availableOnly # Bool(FALSE) => row["available"] = 1

\* row satisfies the filters of a cheapest-by-date request
MatchesCheapest(row, input) ==
  /\ MatchesDestinations(row, input)
  /\ row["destination"] = Trim(input.destination.v)
  /\ FilterSet(input.programId) => row["program_id"] = Trim(input.programId.v)

\* the stats entry of a cabin is null exactly when no row of rows is of that
\* cabin, and holds at least one tier otherwise
StatsCabinsNullable(value, rows) ==
  \A cabin \in CABINS :
    IF \E row \in rows : row["cabin"] = cabin
    THEN value[cabin] # JSNull /\ DOMAIN value[cabin] # {}
    ELSE value[cabin] = JSNull

\* <cabin>_min_points of a destination is null exactly when no row of rows to
\* that destination is of that cabin, and a number otherwise
DestinationCabinsNullable(entry, rows) ==
  \A cabin \in CABINS :
    IF \E row \in rows : row["destination"] = entry.destination /\ row["cabin"] = cabin
    THEN IsNumber(entry[cabin \o "_min_points"])
    ELSE entry[cabin \o "_min_points"] = JSNull

\* the cabin entry of a date is null exactly when no row of rows on that date
\* is of that cabin, and holds the minimum otherwise
DateCabinsNullable(entry, rows) ==
  \A cabin \in CABINS :
    IF \E row \in rows : row["departure_date"] = entry.departure_date /\ row["cabin"] = cabin
    THEN entry[cabin] # JSNull /\ DOMAIN entry[cabin] = {"min_points", "available"}
    ELSE entry[cabin] = JSNull

\* C20: in the three aggregate views a cabin with no matching row is null,
\* never zero or an empty object, and a cabin with a matching row is never
\* null: economy/business/first of stats, <cabin>_min_points of each
\* destination, and the cabin entry of each date of cheapest-by-date.
C20_EmptyCabinIsNull ==
  \A c \in Clients :
    /\ StatsOk(req[c])
         => StatsCabinsNullable(req[c].result.value, Matching(req[c].input))
    /\ (req[c].op = "destinations" /\ req[c].pc = "done" /\ req[c].result.ok)
         => \A i \in DOMAIN req[c].result.value :
              DestinationCabinsNullable(
                req[c].result.value[i],
                {row \in store : MatchesDestinations(row, req[c].input)})
    /\ (req[c].op = "cheapest" /\ req[c].pc = "done" /\ req[c].result.ok)
         => \A i \in DOMAIN req[c].result.value :
              DateCabinsNullable(
                req[c].result.value[i],
                {row \in store : MatchesCheapest(row, req[c].input)})

\* stats with available_only=false over a table with economy and business
\* rows to AKL and none in first
C20_Witness ==
  \E c \in Clients :
    /\ StatsOk(req[c])
    /\ req[c].input.destination = Str("AKL")
    /\ req[c].result.value.first = JSNull
    /\ req[c].result.value.economy # JSNull
    /\ req[c].result.value.business # JSNull

\* destination discovery with a destination that has economy rows only
C20_DestinationsWitness ==
  \E c \in Clients :
    /\ req[c].op = "destinations" /\ req[c].pc = "done" /\ req[c].result.ok
    /\ \E i \in DOMAIN req[c].result.value :
         /\ req[c].result.value[i].destination = "SYD"
         /\ req[c].result.value[i].economy_min_points = Num(30000)
         /\ req[c].result.value[i].business_min_points = JSNull
         /\ req[c].result.value[i].first_min_points = JSNull

\* cheapest-by-date with a date that has an unavailable business row and an
\* economy row, and none in first
C20_CheapestWitness ==
  \E c \in Clients :
    /\ req[c].op = "cheapest" /\ req[c].pc = "done" /\ req[c].result.ok
    /\ \E i \in DOMAIN req[c].result.value :
         /\ req[c].result.value[i].departure_date = "2024-03-01"
         /\ req[c].result.value[i].economy = [min_points |-> 45000, available |-> TRUE]
         /\ req[c].result.value[i].business = [min_points |-> 30000, available |-> FALSE]
         /\ req[c].result.value[i].first = JSNull

CheapestOk(r) == r.op = "cheapest" /\ r.pc = "done" /\ r.result.ok

\* the rows of rows of a cabin on a date
OnDateInCabin(rows, date, cabin) ==
  {row \in rows : row["departure_date"] = date /\ row["cabin"] = cabin}

\* entry is of the cheapest of rows: its points, and whether a row with
\* those points is available
CheapestOf(entry, rows) ==
  /\ \E row \in rows : row["points"] = entry.min_points
  /\ \A row \in rows : row["points"] >= entry.min_points
  /\ entry.available
       <=> \E row \in rows : row["points"] = entry.min_points /\ row["available"] = 1

\* C21: for each date and cabin of a cheapest-by-date result, min_points is
\* the least points among the matching rows of that cabin on that date, and
\* available is true exactly when a row with those points is available.
C21_AvailableAtMinimum ==
  \A c \in Clients :
    CheapestOk(req[c]) =>
      \A i \in DOMAIN req[c].result.value :
        \A cabin \in CABINS :
          req[c].result.value[i][cabin] # JSNull =>
            CheapestOf(req[c].result.value[i][cabin],
                       OnDateInCabin({row \in store : MatchesCheapest(row, req[c].input)},
                                     req[c].result.value[i].departure_date, cabin))

\* the predicates of a WHERE text, in order
Predicates(sql) == Split(SubSeq(sql, Len("WHERE ") + 1, Len(sql)), " AND ")

Emits(predicates, predicate) == \E i \in DOMAIN predicates : predicates[i] = predicate

\* the optional filters of a normalized search filter set that are active
ActiveFilters(filters) ==
  {name \in {"date", "dateFrom", "dateTo", "cabin", "tier", "programId"} :
     filters[name] # JSUndefined /\ (name \in {"dateFrom", "dateTo"} => filters.date = JSUndefined)}
    \cup {name \in {"pointsMax", "pointsMin"} : ~IsNullish(filters[name])}
    \cup {name \in {"availableOnly"} : filters.availableOnly}

\* the predicate each active filter stands for
PredicateOf(name) ==
  CASE name = "date" -> "departure_date = ?"
    [] name = "dateFrom" -> "departure_date >= ?"
    [] name = "dateTo" -> "departure_date <= ?"
    [] name = "cabin" -> "cabin = ?"
    [] name = "tier" -> "tier = ?"
    [] name = "programId" -> "program_id = ?"
    [] name = "availableOnly" -> "available = 1"
    [] name = "pointsMax" -> "points <= ?"
    [] name = "pointsMin" -> "points >= ?"

\* predicates are those of origin and destination, then one for each active
\* filter and nothing else
EmitsActiveFilters(predicates, filters) ==
  /\ Len(predicates) = 2 + Cardinality(ActiveFilters(filters))
  /\ predicates[1] = "origin = ?"
  /\ predicates[2] = "destination = ?"
  /\ \A name \in ActiveFilters(filters) : Emits(predicates, PredicateOf(name))
  /\ \A i \in 3..Len(predicates) :
       \E name \in ActiveFilters(filters) : predicates[i] = PredicateOf(name)
  /\ filters.date # JSUndefined
       => /\ ~Emits(predicates, "departure_date >= ?")
          /\ ~Emits(predicates, "departure_date <= ?")

\* C22: buildWhereClause always emits the predicates of origin and
\* destination; with date set it emits the equality on the date and no range
\* predicate, otherwise one range predicate for each of date_from and date_to
\* that is set; it emits the predicate of cabin, tier, program id, points-max,
\* points-min and availability exactly when that filter is active, so that
\* the predicates are 2 plus the number of active filters.
C22_WherePredicates ==
  \A c \in Clients :
    req[c].op = "buildWhereClause"
      => EmitsActiveFilters(Predicates(req[c].where.sql), req[c].normalized)

\* filters with date, date_from, date_to and availability: the date alone
\* makes a predicate
C22_Witness ==
  \E c \in Clients :
    /\ req[c].op = "buildWhereClause"
    /\ req[c].normalized.date = Str("2024-03-01")
    /\ req[c].normalized.dateFrom = Str("2024-02-28")
    /\ req[c].normalized.dateTo = Str("2024-03-05")
    /\ req[c].where.sql
         = "WHERE origin = ? AND destination = ? AND departure_date = ? AND available = 1"

HasPlaceholder(predicate) == CharAt(predicate, Len(predicate)) = "?"

\* text holds part
Contains(text, part) ==
  \E i \in 1..(Len(text) - Len(part) + 1) : SubSeq(text, i, i + Len(part) - 1) = part

\* the value of the filter that a predicate of a builder compares with
BoundValue(builder, predicate, filters) ==
  CASE predicate = "origin = ?" -> filters.origin
    [] predicate = "destination = ?" -> filters.destination
    [] predicate = "departure_date = ?" -> filters.date.v
    [] predicate = "departure_date >= ?" -> filters.dateFrom.v
    [] predicate = "departure_date <= ?" -> filters.dateTo.v
    [] predicate = "cabin = ?" -> filters.cabin.v
    [] predicate = "tier = ?" -> filters.tier.v
    [] predicate = "program_id = ?" ->
         IF builder = "deleteWhereClause" THEN filters.programId ELSE filters.programId.v
    [] predicate = "points <= ?" -> filters.pointsMax.v
    [] predicate = "points >= ?" -> filters.pointsMin.v

\* the values of a normalized filter set, as text
SuppliedTexts(builder, filters) ==
  {filters[name] : name \in DOMAIN filters \cap {"origin", "destination"}}
    \cup (IF builder = "deleteWhereClause" THEN {filters.programId}
          ELSE IF builder = "destinationsWhereClause" \/ filters.programId = JSUndefined
          THEN {}
          ELSE {filters.programId.v})
    \cup {filters[name].v :
             name \in {n \in DOMAIN filters \cap
                               {"date", "dateFrom", "dateTo", "cabin", "tier"} :
                          filters[n] # JSUndefined}}
    \cup {ToString(filters[name].v) :
             name \in {n \in DOMAIN filters \cap {"pointsMax", "pointsMin"} :
                          filters[n] # JSUndefined}}

\* the parameters are the values of the predicates with a placeholder, in
\* the order of the predicates
BindsInOrder(builder, placeholders, params, filters) ==
  /\ Len(placeholders) = Len(params)
  /\ \A i \in DOMAIN placeholders :
       params[i] = BoundValue(builder, placeholders[i], filters)

Builders ==
  {"buildWhereClause", "deleteWhereClause", "destinationsWhereClause",
   "cheapestWhereClause"}

\* C23: for every builder of WHERE clauses and every normalized filter set,
\* the text holds as many ? placeholders as there are parameters, the i-th
\* parameter is the value of the predicate of the i-th placeholder, and no
\* value of the filter set appears in the text.
C23_ValuesAreBound ==
  \A c \in Clients :
    req[c].op \in Builders =>
      /\ BindsInOrder(req[c].op,
                      SelectSeq(Predicates(req[c].where.sql), HasPlaceholder),
                      req[c].where.params, req[c].normalized)
      /\ Cardinality({i \in 1..Len(req[c].where.sql) : CharAt(req[c].where.sql, i) = "?"})
           = Len(req[c].where.params)
      /\ \A text \in SuppliedTexts(req[c].op, req[c].normalized) :
           ~Contains(req[c].where.sql, text)

\* search filters with a tier made of SQL text and both points bounds
C23_Witness ==
  \E c \in Clients :
    /\ req[c].op = "buildWhereClause"
    /\ req[c].where.sql
         = "WHERE origin = ? AND destination = ? AND tier = ? AND points <= ? AND points >= ?"
    /\ req[c].where.params[3] = "x' OR 'a'='a"
    /\ req[c].where.params[4] = 50000
    /\ req[c].where.params[5] = 30000

\* the earliest and the latest departure date of rows, null over no rows
EarliestDate(rows) ==
  IF rows = {} THEN JSNull
  ELSE Str(CHOOSE d \in {row["departure_date"] : row \in rows} :
             \A row \in rows : StrLeq(d, row["departure_date"]))

LatestDate(rows) ==
  IF rows = {} THEN JSNull
  ELSE Str(CHOOSE d \in {row["departure_date"] : row \in rows} :
             \A row \in rows : StrLeq(row["departure_date"], d))

\* the date filter if given, else the bound of the range if given, else the
\* date worked out from the rows
DateEndpoint(date, bound, computed) ==
  IF FilterSet(date) THEN Str(Trim(date.v))
  ELSE IF FilterSet(bound) THEN Str(Trim(bound.v))
  ELSE computed

\* C24: in a stats result, date_range.from is the date filter if given,
\* else date_from if given, else the earliest departure date of the matching
\* rows, null when none matches; date_range.to is the date filter, else
\* date_to, else the latest departure date of the matching rows or null. A
\* given bound is reported also when no row matches.
C24_StatsDateRange ==
  \A c \in Clients :
    StatsOk(req[c]) =>
      /\ req[c].result.value.date_range.from
           = DateEndpoint(req[c].input.date, req[c].input.dateFrom,
                          EarliestDate(Matching(req[c].input)))
      /\ req[c].result.value.date_range.to
           = DateEndpoint(req[c].input.date, req[c].input.dateTo,
                          LatestDate(Matching(req[c].input)))

\* stats from a day after the only rows of the table: the bound is reported
\* as given, the other end is null
C24_Witness ==
  \E c \in Clients :
    /\ StatsOk(req[c])
    /\ req[c].input.date = JSUndefined
    /\ req[c].input.dateFrom = Str("2024-03-02")
    /\ req[c].input.dateTo = JSUndefined
    /\ store # {}
    /\ req[c].result.value.total_flights = 0
    /\ req[c].result.value.date_range = [from |-> Str("2024-03-02"), to |-> JSNull]

\* stats without date filters: the ends are those of the rows
C24_ComputedWitness ==
  \E c \in Clients :
    /\ StatsOk(req[c])
    /\ req[c].input.availableOnly = Bool(FALSE)
    /\ req[c].result.value.date_range
         = [from |-> Str("2024-03-01"), to |-> Str("2024-03-05")]
    /\ req[c].input.date = JSUndefined
    /\ req[c].input.dateFrom = JSUndefined
    /\ req[c].input.dateTo = JSUndefined

\* the number of days of a month
MonthLength(year, month) ==
  CASE month \in {1, 3, 5, 7, 8, 10, 12} -> 31
    [] month \in {4, 6, 9, 11} -> 30
    [] month = 2 /\ year % 4 = 0 /\ (year % 100 # 0 \/ year % 400 = 0) -> 29
    [] OTHER -> 28

\* text is YYYY-MM-DD and names a day of the calendar
IsCalendarDate(text) ==
  /\ Len(text) = 10
  /\ \A i \in 1..10 : IF i \in {5, 8} THEN CharAt(text, i) = "-" ELSE IsDigit(CharAt(text, i))
  /\ DigitsToNat(SubSeq(text, 6, 7)) \in 1..12
  /\ DigitsToNat(SubSeq(text, 9, 10))
       \in 1..MonthLength(DigitsToNat(SubSeq(text, 1, 4)), DigitsToNat(SubSeq(text, 6, 7)))

\* the operations that take date filters
DatedOps == {"search", "stats", "delete", "destinations", "cheapest"}

\* the date filter of an input, for the operations that have one
DateOf(input) == IF "date" \in DOMAIN input THEN input.date ELSE JSUndefined

\* a date filter that is given and names no day of the calendar
NotADate(value) == FilterSet(value) /\ ~IsCalendarDate(Trim(value.v))

\* both ends of the range are given and the first is the later one
FromAfterTo(dateFrom, dateTo) ==
  /\ FilterSet(dateFrom)
  /\ FilterSet(dateTo)
  /\ StrLess(Trim(dateTo.v), Trim(dateFrom.v))

\* the date filters alone call for a rejection
DatesRejected(date, dateFrom, dateTo) ==
  \/ NotADate(date)
  \/ NotADate(dateFrom)
  \/ NotADate(dateTo)
  \/ FromAfterTo(dateFrom, dateTo)
  \/ FilterSet(date) /\ (FilterSet(dateFrom) \/ FilterSet(dateTo))

\* C25: a search, stats, delete, destinations or cheapest-by-date request
\* with a date, date_from or date_to that is given and is not a day of the
\* calendar written YYYY-MM-DD, or with date_from later than date_to, ends in
\* ValidationError; a request whose dates are real, with date_from equal to
\* date_to or with one end of the range only, and whose other filters are
\* valid, passes validation.
C25_DateFilters ==
  \A c \in Clients :
    req[c].op \in DatedOps =>
      /\ (\/ NotADate(DateOf(req[c].input))
          \/ NotADate(req[c].input.dateFrom)
          \/ NotADate(req[c].input.dateTo)
          \/ FromAfterTo(req[c].input.dateFrom, req[c].input.dateTo))
           => ValidationFailed(req[c])
      /\ (/\ req[c].input \in DatedSearchInputs \cup DatedDeleteInputs
                                \cup DatedDestinationsInputs \cup DatedCheapestInputs
          /\ ~DatesRejected(DateOf(req[c].input), req[c].input.dateFrom,
                            req[c].input.dateTo))
           => ~ValidationFailed(req[c])

\* a delete from 2024-03-01 to 2024-03-01 has run
C25_Witness ==
  \E c \in Clients :
    /\ req[c].op = "delete"
    /\ req[c].input.dateFrom = Str("2024-03-01")
    /\ req[c].input.dateTo = Str("2024-03-01")
    /\ req[c].pc = "done"
    /\ req[c].result.ok

\* a cheapest-by-date request from 30 February is rejected
C25_RejectedWitness ==
  \E c \in Clients :
    /\ req[c].op = "cheapest"
    /\ req[c].input.dateFrom = Str("2023-02-29")
    /\ req[c].input.dateTo = JSUndefined
    /\ ValidationFailed(req[c])
    /\ req[c].result.error.message = "date_from must be YYYY-MM-DD"

\* row satisfies the constraints of the data model
WellFormedRow(row) ==
  /\ IsAirportCode(row["origin"])
  /\ IsAirportCode(row["destination"])
  /\ row["cabin"] \in {"economy", "business", "first"}
  /\ row["route_type"] \in {"direct", "1-stop", "2-stop"}
  /\ row["points"] \in Nat \ {0}
  /\ row["duration_minutes"] \in Nat \ {0}
  /\ row["arrival_day_offset"] \in {0, 1, 2}
  /\ row["available"] \in {0, 1}
  /\ row["seats_left"] = JSNull \/ IsWholeFrom(row["seats_left"], 0)
  /\ IsNumber(row["taxes_myr"]) /\ row["taxes_myr"].v >= 0
  /\ \/ row["cash_equivalent_myr"] = JSNull
     \/ IsNumber(row["cash_equivalent_myr"]) /\ row["cash_equivalent_myr"].v >= 0
  /\ row["program_id"] # ""
  /\ row["flight_number"] # ""
  /\ row["tier"] # ""

\* C26: every row of award_flights, all of them written by upsertFlights,
\* has an origin and a destination of 3 capital letters, a cabin and a route
\* type of the lists, positive whole points and duration, an arrival day
\* offset of 0, 1 or 2, seats left null or a whole number from 0, taxes from
\* 0, a cash equivalent null or from 0, and a program id, flight number and
\* tier that are not empty.
C26_RowsWellFormed == \A row \in store : WellFormedRow(row)

\* the table holds a row posted without origin, arrival day offset, seats
\* left and cash equivalent, next to one posted with all of them
C26_Witness ==
  /\ \E row \in store :
       /\ row["origin"] = "KUL"
       /\ row["arrival_day_offset"] = 0
       /\ row["seats_left"] = JSNull
       /\ row["cash_equivalent_myr"] = JSNull
  /\ \E row \in store :
       /\ row["arrival_day_offset"] = 1
       /\ row["seats_left"] = Num(4)
       /\ row["cash_equivalent_myr"] = Dec(1999, 990)
       /\ row["taxes_myr"] = Dec(123, 450)

\* request c has just had a batched write answered
UpsertCalled(c) ==
  /\ req[c].pc = "upsert_batch"
  /\ Len(req'[c].calls) = Len(req[c].calls) + 1

\* some record of the batch has the key of row
KeySubmitted(records, row) ==
  \E j \in DOMAIN records : FlightKey(records[j]) = RowKey(row)

\* C27: a batched write of an upsert removes no row, and leaves every row
\* whose compound key is the key of no record of the batch exactly as it was.
C27_UpsertFrame ==
  [][\A c \in Clients :
       UpsertCalled(c) =>
         \A old \in store :
           /\ \E new \in store' : new["id"] = old["id"] /\ RowKey(new) = RowKey(old)
           /\ ~KeySubmitted(req[c].normalized, old) => old \in store']_vars

\* an upsert at time 1 has overwritten the row of its key; a row of another
\* key, written at time 0, is still in the table
C27_Witness ==
  \E c \in Clients :
    /\ UpsertOk(req[c])
    /\ \E mine, other \in store :
         /\ KeySubmitted(req[c].normalized, mine)
         /\ mine["created_at"] = 0
         /\ mine["updated_at"] = 1
         /\ ~KeySubmitted(req[c].normalized, other)
         /\ other["updated_at"] = 0

\* two records of the batch share their compound key
HasDuplicateKeys(records) ==
  \E i, j \in DOMAIN records : i < j /\ FlightKey(records[i]) = FlightKey(records[j])

\* the key of record j has one row, with the mutable fields of record j
OneRowAs(record) ==
  /\ Cardinality({row \in store : RowKey(row) = FlightKey(record)}) = 1
  /\ \A row \in store :
       RowKey(row) = FlightKey(record) => RowMutable(row) = FlightMutable(record)

\* C28: when an upsert whose batch holds records of the same compound key
\* answers, it answers with success unless the store failed, each key of the
\* batch has exactly one row, that row has the mutable fields of the last
\* record of its key in array order, in whatever chunks the records of the
\* key fall, and upserted is the number of records submitted.
C28_LastDuplicateWins ==
  \A c \in Clients :
    (/\ req[c].op = "upsert"
     /\ req[c].pc = "done"
     /\ req[c].normalized # NoValue
     /\ HasDuplicateKeys(req[c].normalized))
      => /\ req[c].result.ok \/ DatabaseFailed(req[c])
         /\ req[c].result.ok =>
              /\ \A j \in DOMAIN req[c].normalized :
                   LastOfKey(req[c].normalized, Len(req[c].normalized), j)
                     => OneRowAs(req[c].normalized[j])
              /\ req[c].result.value.upserted = Len(req[c].input)

\* 51 records on two keys: the last record of one key is in the first chunk,
\* that of the other key is alone in the second
C28_Witness ==
  \E c \in Clients :
    /\ UpsertOk(req[c])
    /\ Len(req[c].input) = 51
    /\ HasDuplicateKeys(req[c].normalized)
    /\ Cardinality(store) = 2
    /\ \E row \in store : row["cabin"] = "economy" /\ row["points"] = 40051
    /\ \E row \in store : row["cabin"] = "business" /\ row["points"] = 40050
    /\ req[c].result.value.upserted = 51

\* C29: in every search response with rows, other clients' upserts and
\* deletes between the row fetch and the count included, meta.total is at
\* least offset plus the number of rows of data.
C29_TotalCoversPage ==
  \A c \in Clients :
    (SearchOk(req[c]) /\ Len(req[c].result.value.data) > 0)
      => req[c].result.value.meta.total
           >= req[c].result.value.meta.offset + Len(req[c].result.value.data)
\* C30: pages of one read, taken at offsets 0, limit, 2*limit, ... with the same
\* filters from the same table, give every matching row exactly once: no row is
\* on two pages, and the pages from offset 0 up to an offset hold as many
\* different rows as lie before the end of the last of them, also when rows tie
\* on points, departure date and departure time.
PageFetched(c) ==
  /\ req[c].op = "search"
  /\ req[c].pc = "search_count"

SameRead(c, d) ==
  /\ PageFetched(c)
  /\ PageFetched(d)
  /\ req[c].where = req[d].where
  /\ searchOrderBy(req[c].normalized) = searchOrderBy(req[d].normalized)
  /\ req[c].normalized.limit = req[d].normalized.limit

PageIds(c) == {req[c].fetched[i].id : i \in 1..Len(req[c].fetched)}

MatchingRead(c) ==
  SelectWhere(store, req[c].where.sql, req[c].where.params)

NextPage(c, d) ==
  /\ SameRead(c, d)
  /\ req[d].normalized.offset = req[c].normalized.offset + req[c].normalized.limit

Min2(a, b) == IF a < b THEN a ELSE b

C30_PagesPartition ==
  \A c, d \in Clients :
    NextPage(c, d) =>
      /\ PageIds(c) \cap PageIds(d) = {}
      /\ req[c].normalized.offset = 0 =>
            Cardinality(PageIds(c) \cup PageIds(d))
              = Min2(2 * req[c].normalized.limit, Cardinality(MatchingRead(c)))

====
